---- MODULE Spec2Model ----
(***************************************************************************)
(* A model of GarminDB's versioned-entity storage core: the store open     *)
(* (schema and view reconciliation), upsert of the time-series entities,   *)
(* file ingestion, the generic column aggregation and the rollup bundles   *)
(* of the Garmin and FitBit stores.                                        *)
(*                                                                         *)
(* GarminDB/garmin_db.py and FitBitDB/fitbit_db.py are modelled from the   *)
(* source.  HealthDB (DBObject, DbVersionObject) and Fit.conversions are   *)
(* not part of the reviewed source; the operators that stand for them are  *)
(* modelled from the design specification and say so where defined.        *)
(***************************************************************************)
EXTENDS Integers, Sequences, FiniteSets, TLC

VARIABLES
    release,    \* the versions the installed code declares (table, view, db)
    reg,        \* the version registry stored in the database file
    views,      \* the derived views stored in the database file
    status,     \* "closed" | "usable": whether a GarminDB object exists
    obs,        \* what the last open did (history)
    lastOp,     \* the last ingestion or query operation of the session
    db,         \* the entity tables stored in the database file (committed)
    calls,      \* upsert calls issued so far
    issued,     \* per entity, the last accepted upsert of each natural key (history)
    txn,        \* the ingestion in progress: its file, position and open transaction
    step,       \* what the last record of an ingestion did (history)
    done,       \* the ingestions that committed, in order (history)
    runs,       \* ingestions started so far
    daily_summary,  \* the rows of the Garmin daily_summary table
    days_summary,   \* the rows of the FitBit days_summary table
    out,        \* the last query or lookup and what it returned
    unified,    \* the unified enum a class definition derived
    resting_hr, \* the rows of the resting_hr table
    stress,     \* the rows of the stress table
    download    \* a Download object and the run of its __get_stat

vars ==
    <<release, reg, views, status, obs, lastOp, db, calls, issued, txn, step, done, runs,
      daily_summary, days_summary, out, unified, resting_hr, stress,
      download>>

upsertVars == <<calls, issued>>

ingestVars == <<txn, step, done, runs>>

queryVars == <<daily_summary, days_summary, out>>

\* the state outside the store
sideVars == <<unified, resting_hr, stress, download>>

----------------------------------------------------------------------------
(* Nullable values: None is <<>>, a present value v is <<v>>.  The metric   *)
(* columns of the entities and the results of the queries are nullable.    *)

NULL == <<>>

Some(v) == <<v>>

Get(x) == x[1]

----------------------------------------------------------------------------
(* Bounds of the model.                                                    *)

\* software releases (version bumps) installed over the life of one store
MaxReleases == 2

\* days of the calendar the lifecycle's weight readings fall on
MaxLifeDay == 1

\* upsert calls issued on one open store
MaxUpserts == 3

\* ingestions of a source file started on one store
MaxIngests == 2

\* rows a summary table holds when it is queried
MaxRows == 2

\* the first days a range query starts on are 0 .. MaxStart
MaxStart == 1

\* rows daily_summary holds when a month of it is queried
MaxMonthRows == 4

----------------------------------------------------------------------------
(* The schema the code declares.                                           *)

\* GarminDB.__init__: self.tables, in the order the checks run
tables ==
    << "attributes", "devices", "device_info", "files", "weight", "stress",
       "sleep", "sleep_events", "resting_hr", "daily_summary", "daily_extra_data" >>

TableNames == { tables[i] : i \in 1..Len(tables) }

\* the entities that declare a view_version (DeviceInfo, File)
ViewTables == { "device_info", "files" }

db_version == 13

\* <Entity>.table_version
table_version ==
    [ attributes |-> 1, devices |-> 3, device_info |-> 2, files |-> 3, weight |-> 1,
      stress |-> 1, sleep |-> 1, sleep_events |-> 1, resting_hr |-> 1,
      daily_summary |-> 1, daily_extra_data |-> 1 ]

\* DeviceInfo.view_version, File.view_version
view_version == [ device_info |-> 4, files |-> 4 ]

\* the versions declared by the code as first installed
InitialRelease == [ db |-> db_version, tv |-> table_version, vv |-> view_version ]

\* a store file that does not exist yet: no registry rows, no views
EmptyRegistry ==
    [ db |-> NULL, tv |-> [ t \in TableNames |-> NULL ], vv |-> [ t \in ViewTables |-> NULL ] ]

NoViews == [ t \in ViewTables |-> NULL ]

EmptyDb == [ devices |-> {}, files |-> {}, device_info |-> {}, weight |-> {} ]

----------------------------------------------------------------------------
(* Schema Version Registry (HealthDB.DbVersionObject), from the design     *)
(* specification, section 4.1.                                             *)

\* read the stored version, create the row with the code version if it is
\* missing; a stored version below the code version is a fatal conflict
version_check_key(stored, code_version) ==
    IF stored = NULL
    THEN [ stored |-> Some(code_version), raised |-> FALSE ]
    ELSE [ stored |-> stored, raised |-> Get(stored) < code_version ]

version_check(r, code) ==
    LET c == version_check_key(r.db, code.db)
    IN  [ reg |-> [ r EXCEPT !.db = c.stored ], raised |-> c.raised ]

table_version_check(r, t, code) ==
    LET c == version_check_key(r.tv[t], code.tv[t])
    IN  [ reg |-> [ r EXCEPT !.tv[t] = c.stored ], raised |-> c.raised ]

\* whether the stored view version is current; the stored version is advanced
\* to the code version here (the open makes no other call on the registry)
view_version_check(r, t, code) ==
    IF t \notin ViewTables
    THEN [ reg |-> r, current |-> TRUE ]
    ELSE [ reg |-> [ r EXCEPT !.vv[t] = Some(code.vv[t]) ],
           current |-> ~ (r.vv[t] # NULL /\ Get(r.vv[t]) < code.vv[t]) ]

\* DROP VIEW IF EXISTS
delete_view(vs, t) == IF t \in ViewTables THEN [ vs EXCEPT ![t] = NULL ] ELSE vs

\* CREATE VIEW IF NOT EXISTS: the view is built from the query of this code
create_view(vs, t, code) == IF vs[t] = NULL THEN [ vs EXCEPT ![t] = Some(code.vv[t]) ] ELSE vs

----------------------------------------------------------------------------
(* GarminDB.__init__                                                       *)

\* the loop over self.tables; an exception of table_version_check leaves it
RECURSIVE init_tables(_, _, _)
init_tables(i, st, code) ==
    IF i > Len(tables) \/ ~ st.ok
    THEN st
    ELSE LET t  == tables[i]
             tc == table_version_check(st.reg, t, code)
             vc == view_version_check(tc.reg, t, code)
         IN  IF tc.raised
             THEN [ st EXCEPT !.reg = tc.reg, !.ok = FALSE, !.checked = Append(@, t) ]
             ELSE init_tables(i + 1,
                      [ st EXCEPT !.reg = vc.reg,
                                  !.checked = Append(@, t),
                                  !.views = IF vc.current THEN @ ELSE delete_view(@, t),
                                  !.dropped = IF vc.current THEN @ ELSE @ \cup {t} ],
                      code)

\* as GarminDB_init, but a stale stored version is raised to the declared one
\* (an upgrade in place) before the checks run
GarminDB_init_upgrading_in_place(r, vs, data, code) ==
    LET up == [ db |-> IF r.db = NULL THEN NULL ELSE Some(code.db),
                tv |-> [ t \in TableNames |->
                           IF r.tv[t] = NULL THEN NULL ELSE Some(code.tv[t]) ],
                vv |-> r.vv ]
        c0 == version_check(up, code)
        s0 == [ reg |-> c0.reg, views |-> vs, db |-> data, ok |-> ~ c0.raised,
                checked |-> <<>>, dropped |-> {} ]
        s1 == init_tables(1, s0, code)
    IN  IF s1.ok
        THEN [ s1 EXCEPT !.views = create_view(create_view(@, "device_info", code), "files", code) ]
        ELSE s1

\* as GarminDB_init, without the call of File.create_view
GarminDB_init_without_file_view(r, vs, data, code) ==
    LET c0 == version_check(r, code)
        s0 == [ reg |-> c0.reg, views |-> vs, db |-> data, ok |-> ~ c0.raised,
                checked |-> <<>>, dropped |-> {} ]
        s1 == init_tables(1, s0, code)
    IN  IF s1.ok
        THEN [ s1 EXCEPT !.views = create_view(@, "device_info", code) ]
        ELSE s1

\* as GarminDB_init, with the checks left to a later call
GarminDB_init_deferring_checks(r, vs, data, code) ==
    [ reg |-> r, views |-> vs, db |-> data, ok |-> TRUE, checked |-> <<>>, dropped |-> {} ]

GarminDB_init(r, vs, data, code) ==
    LET \* metadata.create_all: creates the missing tables, touches no row
        c0 == version_check(r, code)
        s0 == [ reg |-> c0.reg, views |-> vs, db |-> data, ok |-> ~ c0.raised,
                checked |-> <<>>, dropped |-> {} ]
        s1 == init_tables(1, s0, code)
    IN  IF s1.ok
        THEN [ s1 EXCEPT !.views = create_view(create_view(@, "device_info", code), "files", code) ]
        ELSE s1

----------------------------------------------------------------------------
(* The entities' keys, garmin_db.py.                                       *)

Entities == { "devices", "files", "device_info", "weight" }

\* the column declared primary_key=True
primary_key ==
    [ devices |-> "serial_number", files |-> "id", device_info |-> "id", weight |-> "day" ]

\* <Entity>.match_col_names; Weight declares none
match_col_names ==
    [ devices |-> { "serial_number" },
      files |-> { "name" },
      device_info |-> { "timestamp", "serial_number", "device_type" },
      weight |-> {} ]

\* as ForeignKeys, with DeviceInfo.file_id a plain column
ForeignKeys_without_file_id ==
    [ devices |-> {},
      files |-> { [ col |-> "serial_number", table |-> "devices", ref |-> "serial_number",
                    nullable |-> TRUE ] },
      device_info |-> { [ col |-> "serial_number", table |-> "devices",
                          ref |-> "serial_number", nullable |-> FALSE ] },
      weight |-> {} ]

\* the columns declared with ForeignKey(...)
ForeignKeys ==
    [ devices |-> {},
      files |-> { [ col |-> "serial_number", table |-> "devices", ref |-> "serial_number",
                    nullable |-> TRUE ] },
      device_info |-> { [ col |-> "file_id", table |-> "files", ref |-> "id",
                          nullable |-> TRUE ],
                        [ col |-> "serial_number", table |-> "devices",
                          ref |-> "serial_number", nullable |-> FALSE ] },
      weight |-> {} ]

\* os.path.basename: what follows the last "/"
RECURSIVE basename(_)
basename(path) ==
    IF \E i \in 1..Len(path) : path[i] = "/"
    THEN basename(Tail(path))
    ELSE path

\* name.split('.')[0]: what precedes the first "."
RECURSIVE split_first(_)
split_first(name) ==
    IF name = <<>> \/ Head(name) = "."
    THEN <<>>
    ELSE <<Head(name)>> \o split_first(Tail(name))

\* File.id_from_path
id_from_path(pathname) == split_first(basename(pathname))

\* File.name_and_id_from_path
name_and_id_from_path(pathname) ==
    [ id |-> split_first(basename(pathname)), name |-> basename(pathname) ]

----------------------------------------------------------------------------
(* Time-Series Entity Layer (HealthDB.DBObject), from the design           *)
(* specification, section 4.3, over the keys declared in garmin_db.py.     *)

NaturalKey(e) == IF match_col_names[e] = {} THEN { primary_key[e] } ELSE match_col_names[e]

SameKey(e, r, rec) == \A c \in NaturalKey(e) : r[c] = rec[c]

\* the next value of an autoincrement integer primary key
next_id(rows) ==
    IF rows = {} THEN 1 ELSE 1 + (CHOOSE n \in { r.id : r \in rows } : \A r \in rows : r.id <= n)

\* the foreign keys of rec that name no row
MissingReferents(tabs, e, rec) ==
    { fk \in ForeignKeys[e] :
        /\ ~ (fk.nullable /\ rec[fk.col] = NULL)
        /\ ~ \E r \in tabs[fk.table] :
                 r[fk.ref] = (IF fk.nullable THEN Get(rec[fk.col]) ELSE rec[fk.col]) }

\* insert-or-update of one record into the rows of entity e
create_or_update(rows, e, rec) ==
    LET pk    == primary_key[e]
        found == { r \in rows : SameKey(e, r, rec) }
    IN  IF match_col_names[e] = {}
        THEN \* key-based: the row of that primary key is replaced
             [ rows |-> { r \in rows : r[pk] # rec[pk] } \cup { rec }, error |-> "none" ]
        ELSE IF found # {}
        THEN \* found by its match columns: every other column is updated in place
             LET old == CHOOSE r \in found : TRUE
                 new == [ c \in DOMAIN old |-> IF c \in DOMAIN rec THEN rec[c] ELSE old[c] ]
             IN  IF \E r \in rows \ { old } : r[pk] = new[pk]
                 THEN [ rows |-> rows, error |-> "IntegrityError" ]
                 ELSE [ rows |-> (rows \ { old }) \cup { new }, error |-> "none" ]
        ELSE \* no match: a new row is inserted; the primary key must be free
             LET new == IF pk \in DOMAIN rec
                        THEN rec
                        ELSE [ c \in DOMAIN rec \cup { pk } |->
                                 IF c = pk THEN next_id(rows) ELSE rec[c] ]
             IN  IF \E r \in rows : r[pk] = new[pk]
                 THEN [ rows |-> rows, error |-> "IntegrityError" ]
                 ELSE [ rows |-> rows \cup { new }, error |-> "none" ]

\* upsert(entity, record) on the tables: a missing referent is a
\* ConstraintViolation and the record is not stored
upsert(tabs, e, rec) ==
    IF MissingReferents(tabs, e, rec) # {}
    THEN [ db |-> tabs, error |-> "ConstraintViolation" ]
    ELSE LET u == create_or_update(tabs[e], e, rec)
         IN  [ db |-> [ tabs EXCEPT ![e] = u.rows ], error |-> u.error ]

----------------------------------------------------------------------------
(* The records the decoders supply.                                        *)

Serials == { 1, 2 }

Products == { "fenix", "vivo" }

\* two files of one activity (FIT and TCX) and a file of another
Paths ==
    { << "a", "/", "1", ".", "f" >>, << "a", "/", "1", ".", "t" >>, << "2", ".", "f" >> }

FileIds == { id_from_path(p) : p \in Paths }

DeviceRecords == [ serial_number : Serials, product : Products ]

FileRecords ==
    { [ id |-> name_and_id_from_path(p).id, name |-> name_and_id_from_path(p).name,
        serial_number |-> s ] : p \in Paths, s \in { NULL } \cup { Some(n) : n \in Serials } }

DeviceInfoRecords ==
    [ timestamp : { 1 }, serial_number : Serials, device_type : { NULL, Some("watch") },
      file_id : { NULL } \cup { Some(i) : i \in FileIds }, software_version : { "v1", "v2" } ]

LifeDays == 0..MaxLifeDay

LifeWeights == { 60, 70 }

WeightRecords == [ day : LifeDays, weight : { Some(w) : w \in LifeWeights } ]

RecordsOf(e) ==
    CASE e = "devices" -> DeviceRecords
      [] e = "files" -> FileRecords
      [] e = "device_info" -> DeviceInfoRecords
      [] e = "weight" -> WeightRecords

----------------------------------------------------------------------------
(* The life of one store file.                                             *)

Stale(r, code) ==
    { t \in TableNames : r.tv[t] # NULL /\ Get(r.tv[t]) < code.tv[t] }

StaleViews(r, code) ==
    { t \in ViewTables : r.vv[t] # NULL /\ Get(r.vv[t]) < code.vv[t] }

Bumps ==
    (release.db - db_version)
    + (release.vv["device_info"] - view_version["device_info"])
    + (release.vv["files"] - view_version["files"])
    + (release.tv["devices"] - table_version["devices"])
    + (release.tv["files"] - table_version["files"])
    + (release.tv["daily_summary"] - table_version["daily_summary"])

NoObs ==
    [ opened |-> FALSE, ok |-> FALSE, before |-> EmptyRegistry, code |-> InitialRelease,
      viewsBefore |-> NoViews, dbBefore |-> EmptyDb, checked |-> <<>>, dropped |-> {},
      created |-> {}, second |-> FALSE ]

NoneIssued == [ e \in Entities |-> {} ]

NoOut == [ q |-> "none", a |-> 0, b |-> 0, stats |-> << >> ]

\* no summary table holds a row and no statistics query was made
NoSummaries == daily_summary = {} /\ days_summary = {} /\ out = NoOut

NoEnum == [ name |-> "", members |-> {}, prefix |-> "" ]

\* a Download object at rest
NoDownload ==
    [ pc |-> "idle", download_days_overlap |-> 0, now |-> 0, midnights |-> 0, date |-> 0,
      days |-> 0, overwite |-> FALSE, day |-> 0, requests |-> << >> ]

\* no enum is derived, the tables of vital signs are empty, nothing is downloaded
NoSide == unified = NoEnum /\ resting_hr = {} /\ stress = {} /\ download = NoDownload

NoTxn == [ active |-> FALSE, file |-> "", pos |-> 0, work |-> EmptyDb, skipped |-> {} ]

NoStep == [ kind |-> "none", e |-> "", rec |-> <<>>, before |-> EmptyDb, after |-> EmptyDb ]

Init ==
    /\ release = InitialRelease
    /\ reg = EmptyRegistry
    /\ views = NoViews
    /\ status = "closed"
    /\ obs = NoObs
    /\ lastOp = "none"
    /\ db = EmptyDb
    /\ calls = 0
    /\ issued = NoneIssued
    /\ txn = NoTxn
    /\ step = NoStep
    /\ done = <<>>
    /\ runs = 0
    /\ NoSummaries
    /\ NoSide

\* GarminDB(db_params_dict): the object exists only if __init__ returns
Open ==
    /\ status = "closed"
    /\ LET r == GarminDB_init(reg, views, db, release)
       IN  /\ reg' = r.reg
           /\ views' = r.views
           /\ db' = r.db
           /\ status' = IF r.ok THEN "usable" ELSE "closed"
           /\ obs' = [ opened |-> TRUE, ok |-> r.ok, before |-> reg, code |-> release,
                       viewsBefore |-> views, dbBefore |-> db, checked |-> r.checked,
                       dropped |-> r.dropped,
                       created |-> { t \in ViewTables : views[t] = NULL /\ r.views[t] # NULL }
                                   \cup { t \in r.dropped : r.views[t] # NULL },
                       second |-> obs.opened /\ obs.code = release ]
    /\ lastOp' = "none"
    /\ UNCHANGED <<release, upsertVars, queryVars, sideVars, ingestVars>>

\* the program exits
Close ==
    /\ status = "usable"
    /\ status' = "closed"
    /\ UNCHANGED <<release, reg, views, obs, lastOp, db, upsertVars, queryVars, sideVars, ingestVars>>

\* a new version of the software is installed: one declared version is raised
Release ==
    /\ status = "closed"
    /\ Bumps < MaxReleases
    /\ \/ release' = [ release EXCEPT !.db = @ + 1 ]
       \/ \E t \in ViewTables : release' = [ release EXCEPT !.vv[t] = @ + 1 ]
       \/ \E t \in { "devices", "files", "daily_summary" } :
              release' = [ release EXCEPT !.tv[t] = @ + 1 ]
    /\ UNCHANGED <<reg, views, status, obs, lastOp, db, upsertVars, queryVars, sideVars, ingestVars>>

\* the operator rebuilds the store after a refused open: the file is deleted
Rebuild ==
    /\ status = "closed"
    /\ obs.opened /\ ~ obs.ok
    /\ reg' = EmptyRegistry
    /\ views' = NoViews
    /\ db' = EmptyDb
    /\ obs' = NoObs
    /\ lastOp' = "none"
    /\ UNCHANGED <<release, status, upsertVars, queryVars, sideVars, ingestVars>>

\* Weight.create_or_update on the open store
UpsertOp ==
    /\ status = "usable"
    /\ \E rec \in WeightRecords : db' = upsert(db, "weight", rec).db
    /\ lastOp' = "upsert"
    /\ UNCHANGED <<release, reg, views, status, obs, upsertVars, queryVars, sideVars, ingestVars>>

\* a query on the open store: an aggregate, a rollup bundle or a view read
QueryOp ==
    /\ status = "usable"
    /\ \E k \in { "aggregate", "rollup", "view" } : lastOp' = k
    /\ UNCHANGED <<release, reg, views, status, obs, db, upsertVars, queryVars, sideVars, ingestVars>>

Next == Open \/ Close \/ Release \/ Rebuild \/ UpsertOp \/ QueryOp

Spec == Init /\ [][Next]_vars

----------------------------------------------------------------------------
(* Upserts on one open store, each committed as it returns.                *)

\* the store as a first open of a new file leaves it
Opened == GarminDB_init(EmptyRegistry, NoViews, EmptyDb, InitialRelease)

InitUpsert ==
    /\ release = InitialRelease
    /\ reg = Opened.reg
    /\ views = Opened.views
    /\ status = "usable"
    /\ obs = NoObs
    /\ lastOp = "none"
    /\ db = EmptyDb
    /\ calls = 0
    /\ issued = NoneIssued
    /\ txn = NoTxn
    /\ step = NoStep
    /\ done = <<>>
    /\ runs = 0
    /\ NoSummaries
    /\ NoSide

\* <Entity>.create_or_update(db, record)
Upsert(e) ==
    /\ status = "usable"
    /\ calls < MaxUpserts
    /\ \E rec \in RecordsOf(e) :
           LET u == upsert(db, e, rec)
           IN  /\ db' = u.db
               /\ issued' = IF u.error = "ConstraintViolation"
                            THEN issued
                            ELSE [ issued EXCEPT ![e] =
                                     { h \in @ : ~ SameKey(e, h, rec) } \cup { rec } ]
    /\ calls' = calls + 1
    /\ lastOp' = "upsert"
    /\ UNCHANGED <<release, reg, views, status, obs, ingestVars, queryVars, sideVars>>

UpsertDevice == Upsert("devices")

UpsertFile == Upsert("files")

UpsertDeviceInfo == Upsert("device_info")

UpsertWeight == Upsert("weight")

NextUpsert == UpsertDevice \/ UpsertFile \/ UpsertDeviceInfo \/ UpsertWeight

SpecUpsert == InitUpsert /\ [][NextUpsert]_vars

----------------------------------------------------------------------------
(* Ingestion of source files (design specification, sections 5 and 7): the *)
(* records of one file are upserted inside one transaction, committed when *)
(* the batch is through and rolled back when the caller aborts or the      *)
(* program dies.                                                           *)

Dev(s, p) == [ e |-> "devices", rec |-> [ serial_number |-> s, product |-> p ] ]

Fil(path, s) ==
    [ e |-> "files",
      rec |-> [ id |-> name_and_id_from_path(path).id,
                name |-> name_and_id_from_path(path).name, serial_number |-> s ] ]

Inf(s, ty, f, v) ==
    [ e |-> "device_info",
      rec |-> [ timestamp |-> 1, serial_number |-> s, device_type |-> ty, file_id |-> f,
                software_version |-> v ] ]

Wt(d, w) == [ e |-> "weight", rec |-> [ day |-> d, weight |-> Some(w) ] ]

\* the normalized records the decoders supply for each source file
SourceFiles ==
    [ fit1 |-> << Dev(1, "fenix"), Fil(<< "a", "/", "1", ".", "f" >>, Some(1)),
                  Inf(1, Some("watch"), Some(<< "1" >>), "v1") >>,
      \* the same file downloaded again, with later content
      fit1again |-> << Dev(1, "vivo"), Fil(<< "a", "/", "1", ".", "f" >>, Some(1)),
                       Inf(1, Some("watch"), Some(<< "1" >>), "v2") >>,
      \* the TCX file of the activity of fit1
      tcx1 |-> << Fil(<< "a", "/", "1", ".", "t" >>, NULL), Wt(1, 70) >>,
      \* the file record comes before the record of its device
      fit2 |-> << Fil(<< "2", ".", "f" >>, Some(2)), Dev(2, "fenix"),
                  Inf(2, NULL, Some(<< "2" >>), "v1") >>,
      \* a device info of a device no file has described
      mixed |-> << Dev(1, "vivo"), Inf(2, NULL, NULL, "v1"), Wt(0, 60) >>,
      weights |-> << Wt(0, 70), Wt(1, 60) >> ]

FileNames == DOMAIN SourceFiles

\* as committed_after_record, with every record committed as it is upserted
committed_after_record_autocommit(committed, work) == work

\* the committed tables after a record was upserted inside the transaction
committed_after_record(committed, work) == committed

InitIngest ==
    /\ release = InitialRelease
    /\ reg = Opened.reg
    /\ views = Opened.views
    /\ status = "usable"
    /\ obs = NoObs
    /\ lastOp = "none"
    /\ db = EmptyDb
    /\ calls = 0
    /\ issued = NoneIssued
    /\ txn = NoTxn
    /\ step = NoStep
    /\ done = <<>>
    /\ runs = 0
    /\ NoSummaries
    /\ NoSide

\* the ingestion of a source file begins: a transaction is opened
BeginIngest ==
    /\ status = "usable"
    /\ ~ txn.active
    /\ runs < MaxIngests
    /\ \E f \in FileNames :
           txn' = [ active |-> TRUE, file |-> f, pos |-> 1, work |-> db, skipped |-> {} ]
    /\ runs' = runs + 1
    /\ step' = NoStep
    /\ UNCHANGED <<release, reg, views, status, obs, lastOp, db, upsertVars, queryVars, sideVars, done>>

\* the next record of the file is upserted; on an error the caller either goes
\* on with the next record or aborts the batch, which rolls the transaction back
IngestRecord ==
    /\ status = "usable"
    /\ txn.active
    /\ txn.pos <= Len(SourceFiles[txn.file])
    /\ LET m == SourceFiles[txn.file][txn.pos]
           u == upsert(txn.work, m.e, m.rec)
       IN  /\ step' = [ kind |-> CASE u.error = "none" -> "stored"
                                   [] u.error = "ConstraintViolation" -> "rejected"
                                   [] OTHER -> "failed",
                        e |-> m.e, rec |-> m.rec, before |-> txn.work, after |-> u.db ]
           /\ \/ txn' = [ txn EXCEPT !.work = u.db, !.pos = @ + 1,
                                     !.skipped = IF u.error = "none" THEN @ ELSE @ \cup { txn.pos } ]
              \/ u.error # "none" /\ txn' = NoTxn
           /\ db' = committed_after_record(db, u.db)
    /\ lastOp' = "upsert"
    /\ UNCHANGED <<release, reg, views, status, obs, upsertVars, queryVars, sideVars, done, runs>>

\* the batch is through: the transaction commits
Commit ==
    /\ status = "usable"
    /\ txn.active
    /\ txn.pos > Len(SourceFiles[txn.file])
    /\ db' = txn.work
    /\ done' = Append(done, [ file |-> txn.file, skipped |-> txn.skipped, before |-> db ])
    /\ txn' = NoTxn
    /\ UNCHANGED <<release, reg, views, status, obs, lastOp, upsertVars, queryVars, sideVars, step, runs>>

\* the program dies inside the batch: the open transaction is rolled back
Crash ==
    /\ status = "usable"
    /\ txn.active
    /\ txn' = NoTxn
    /\ status' = "closed"
    /\ UNCHANGED <<release, reg, views, obs, lastOp, db, upsertVars, queryVars, sideVars, step, done, runs>>

NextIngest == Open \/ BeginIngest \/ IngestRecord \/ Commit \/ Crash

SpecIngest == InitIngest /\ [][NextIngest]_vars

\* the whole batch of a file on the tables: every record upserted in order, a
\* refused record leaving the tables as they are
RECURSIVE ApplyRecords(_, _, _)
ApplyRecords(tabs, batch, i) ==
    IF i > Len(batch)
    THEN tabs
    ELSE ApplyRecords(upsert(tabs, batch[i].e, batch[i].rec).db, batch, i + 1)

RECURSIVE ApplyFiles(_, _, _)
ApplyFiles(tabs, files, i) ==
    IF i > Len(files)
    THEN tabs
    ELSE ApplyFiles(ApplyRecords(tabs, SourceFiles[files[i].file], 1), files, i + 1)

\* the batch with the records at the skipped positions left out, no check made
RECURSIVE ApplySkipping(_, _, _, _)
ApplySkipping(tabs, batch, skipped, i) ==
    IF i > Len(batch)
    THEN tabs
    ELSE ApplySkipping(
             IF i \in skipped
             THEN tabs
             ELSE [ tabs EXCEPT ![batch[i].e] = create_or_update(@, batch[i].e, batch[i].rec).rows ],
             batch, skipped, i + 1)

----------------------------------------------------------------------------
(* Fit.conversions: durations kept as a time of day.  From the design      *)
(* specification, section 3: arithmetic goes through total seconds, and a  *)
(* time of day holds 00:00:00 to 23:59:59.                                 *)

SecondsPerDay == 86400

Time(h, m, s) == [ h |-> h, m |-> m, s |-> s ]

\* datetime.time.min
time_min == Time(0, 0, 0)

time_to_secs(t) == t.h * 3600 + t.m * 60 + t.s

\* (datetime.min + timedelta(seconds)).time(): the days carried are dropped
secs_to_dt_time(secs) ==
    LET x == secs % SecondsPerDay
    IN  Time(x \div 3600, (x % 3600) \div 60, x % 60)

add_time(time1, time2, scale) ==
    secs_to_dt_time(time_to_secs(time1) + time_to_secs(time2) * scale)

----------------------------------------------------------------------------
(* Generic Aggregation Engine (HealthDB.DBObject), from the design         *)
(* specification, section 4.4.  Every entity queried here has day as its   *)
(* time column.  An average is kept as a fraction in lowest terms.         *)

RECURSIVE Gcd(_, _)
Gcd(a, b) == IF b = 0 THEN a ELSE Gcd(b, a % b)

Frac(n, d) == LET g == Gcd(n, d) IN [ num |-> n \div g, den |-> d \div g ]

FracAdd(x, y) == Frac(x.num * y.den + y.num * x.den, x.den * y.den)

\* the rows with start <= time < end and a non-null column, without the rows
\* whose column is zero when ignore_zero is set
qualifying(rows, col, start_ts, end_ts, ignore_zero) ==
    { r \in rows :
        /\ start_ts <= r.day
        /\ r.day < end_ts
        /\ r[col] # NULL
        /\ ignore_zero => Get(r[col]) # 0 }

RECURSIVE col_sum(_, _)
col_sum(rows, col) ==
    IF rows = {}
    THEN 0
    ELSE LET r == CHOOSE x \in rows : TRUE
         IN  Get(r[col]) + col_sum(rows \ { r }, col)

get_col_sum(rows, col, start_ts, end_ts) ==
    LET q == qualifying(rows, col, start_ts, end_ts, FALSE)
    IN  IF q = {} THEN NULL ELSE Some(col_sum(q, col))

get_col_avg(rows, col, start_ts, end_ts, ignore_zero) ==
    LET q == qualifying(rows, col, start_ts, end_ts, ignore_zero)
    IN  IF q = {} THEN NULL ELSE Some(Frac(col_sum(q, col), Cardinality(q)))

get_col_min(rows, col, start_ts, end_ts, ignore_zero) ==
    LET q == qualifying(rows, col, start_ts, end_ts, ignore_zero)
    IN  IF q = {}
        THEN NULL
        ELSE Some(CHOOSE v \in { Get(r[col]) : r \in q } : \A r \in q : v <= Get(r[col]))

get_col_max(rows, col, start_ts, end_ts) ==
    LET q == qualifying(rows, col, start_ts, end_ts, FALSE)
    IN  IF q = {}
        THEN NULL
        ELSE Some(CHOOSE v \in { Get(r[col]) : r \in q } : \A r \in q : v >= Get(r[col]))

\* the rows with the duration column replaced by its total seconds
secs_from_time(rows, col) ==
    { [ r EXCEPT ![col] = IF @ = NULL THEN NULL ELSE Some(time_to_secs(Get(@))) ] : r \in rows }

\* time_from_secs of a nullable number of seconds
time_from_secs(secs) == IF secs = NULL THEN NULL ELSE Some(secs_to_dt_time(Get(secs)))

get_time_col_sum(rows, col, start_ts, end_ts) ==
    time_from_secs(get_col_sum(secs_from_time(rows, col), col, start_ts, end_ts))

get_time_col_avg(rows, col, start_ts, end_ts) ==
    LET a == get_col_avg(secs_from_time(rows, col), col, start_ts, end_ts, FALSE)
    IN  IF a = NULL THEN NULL ELSE Some(secs_to_dt_time(Get(a).num \div Get(a).den))

\* Fit.conversions.min_to_dt_time: int(minutes * 60) seconds, None for None
min_to_dt_time(minutes) ==
    IF minutes = NULL
    THEN NULL
    ELSE Some(secs_to_dt_time((Get(minutes).num * 60) \div Get(minutes).den))

\* a whole number as the value of a query
Whole(x) == IF x = NULL THEN NULL ELSE Some(Frac(Get(x), 1))

----------------------------------------------------------------------------
(* Statistics of the Garmin store: Weight and DailySummary.                *)

DaysPerWeek == 7

\* datetime.timedelta(days) added to a day
timedelta(days) == days

Weight_get_stats_min_with_zeros(rows, start_ts, end_ts) ==
    [ weight_avg |-> get_col_avg(rows, "weight", start_ts, end_ts, TRUE),
      weight_min |-> get_col_min(rows, "weight", start_ts, end_ts, FALSE),
      weight_max |-> get_col_max(rows, "weight", start_ts, end_ts) ]

Weight_get_stats(rows, start_ts, end_ts) ==
    [ weight_avg |-> get_col_avg(rows, "weight", start_ts, end_ts, TRUE),
      weight_min |-> get_col_min(rows, "weight", start_ts, end_ts, TRUE),
      weight_max |-> get_col_max(rows, "weight", start_ts, end_ts) ]

RestingHeartRate_get_stats(rows, start_ts, end_ts) ==
    [ rhr_avg |-> get_col_avg(rows, "resting_heart_rate", start_ts, end_ts, TRUE),
      rhr_min |-> get_col_min(rows, "resting_heart_rate", start_ts, end_ts, TRUE),
      rhr_max |-> get_col_max(rows, "resting_heart_rate", start_ts, end_ts) ]

Stress_get_stats(rows, start_ts, end_ts) ==
    [ stress_avg |-> get_col_avg(rows, "stress", start_ts, end_ts, TRUE) ]

\* DailySummary.intensity_time on a loaded record
intensity_time(r) ==
    add_time(Get(r.moderate_activity_time), Get(r.vigorous_activity_time), 2)

\* DailySummary.intensity_time as a query expression
intensity_time_expression(r) ==
    time_from_secs(Some(2 * time_to_secs(Get(r.vigorous_activity_time))
                        + time_to_secs(Get(r.moderate_activity_time))))

\* the rows as a query on cls.intensity_time sees them
with_intensity_time(rows) ==
    { [ day |-> r.day, intensity_time |-> intensity_time_expression(r) ] : r \in rows }

\* the value of a goal percentage: a number (kept as a fraction in lowest
\* terms), null, or the exception that left the computation
Number(n, d) ==
    LET g == Gcd(n, d) IN [ kind |-> "number", num |-> n \div g, den |-> d \div g ]

Null == [ kind |-> "null", num |-> 0, den |-> 1 ]

ZeroDivisionError == [ kind |-> "ZeroDivisionError", num |-> 0, den |-> 1 ]

\* a / b on two ints: the floor, the module having no true division
int_div(a, b) == IF b = 0 THEN ZeroDivisionError ELSE Number(a \div b, 1)

\* a / b where an operand is a float
float_div(a, b) == IF b = 0 THEN ZeroDivisionError ELSE Number(a, b)

\* DailySummary.intensity_time_goal_percent on a loaded record
intensity_time_goal_percent(r) ==
    IF r.moderate_activity_time # NULL /\ r.vigorous_activity_time # NULL
       /\ r.intensity_time_goal # NULL
    THEN int_div(time_to_secs(intensity_time(r)) * 100,
                 time_to_secs(Get(r.intensity_time_goal)))
    ELSE Number(0, 1)

\* DailySummary.steps_goal_percent on a loaded record
steps_goal_percent(r) ==
    IF r.steps # NULL /\ r.step_goal # NULL
    THEN int_div(Get(r.steps) * 100, Get(r.step_goal))
    ELSE Number(0, 1)

\* DailySummary.floors_goal_percent on a loaded record: the columns are floats
floors_goal_percent(r) ==
    IF r.floors_up # NULL /\ r.floors_goal # NULL
    THEN float_div(Get(r.floors_up) * 100, Get(r.floors_goal))
    ELSE Number(0, 1)

\* func.round of a / b in a query: null for a null operand and for a zero
\* divisor; on two integers the engine either truncates the quotient first
\* or keeps it
sql_round_div(a, b, truncating) ==
    IF a = NULL \/ b = NULL
    THEN Null
    ELSE IF Get(b) = 0
    THEN Null
    ELSE IF truncating
    THEN Number(Get(a) \div Get(b), 1)
    ELSE Number((2 * Get(a) + Get(b)) \div (2 * Get(b)), 1)

times100(x) == IF x = NULL THEN NULL ELSE Some(Get(x) * 100)

\* the total seconds of a nullable duration in a query
sql_secs(t) == IF t = NULL THEN NULL ELSE Some(time_to_secs(Get(t)))

\* DailySummary.intensity_time_goal_percent as a query expression
intensity_time_goal_percent_expression(r, truncating) ==
    sql_round_div(times100(sql_secs(intensity_time_expression(r))),
                  sql_secs(r.intensity_time_goal), truncating)

\* DailySummary.steps_goal_percent as a query expression
steps_goal_percent_expression(r, truncating) ==
    sql_round_div(times100(r.steps), r.step_goal, truncating)

\* DailySummary.floors_goal_percent as a query expression: the columns are floats
floors_goal_percent_expression(r) ==
    sql_round_div(times100(r.floors_up), r.floors_goal, FALSE)

DailySummary_get_stats_steps_zero_when_empty(rows, start_ts, end_ts) ==
    [ rhr_avg |-> get_col_avg(rows, "rhr", start_ts, end_ts, FALSE),
      rhr_min |-> get_col_min(rows, "rhr", start_ts, end_ts, FALSE),
      rhr_max |-> get_col_max(rows, "rhr", start_ts, end_ts),
      stress_avg |-> get_col_avg(rows, "stress_avg", start_ts, end_ts, FALSE),
      steps |-> LET x == get_col_sum(rows, "steps", start_ts, end_ts)
                IN  IF x = NULL THEN Some(0) ELSE x,
      steps_goal |-> get_col_sum(rows, "step_goal", start_ts, end_ts),
      floors |-> get_col_sum(rows, "floors_up", start_ts, end_ts),
      floors_goal |-> get_col_sum(rows, "floors_goal", start_ts, end_ts),
      calories_goal |-> get_col_avg(rows, "calories_goal", start_ts, end_ts, FALSE),
      intensity_time |->
          get_time_col_sum(with_intensity_time(rows), "intensity_time", start_ts, end_ts),
      moderate_activity_time |->
          get_time_col_sum(rows, "moderate_activity_time", start_ts, end_ts),
      vigorous_activity_time |->
          get_time_col_sum(rows, "vigorous_activity_time", start_ts, end_ts),
      intensity_time_goal |->
          get_time_col_avg(rows, "intensity_time_goal", start_ts, end_ts),
      calories_avg |-> get_col_avg(rows, "calories_total", start_ts, end_ts, FALSE),
      calories_bmr_avg |-> get_col_avg(rows, "calories_bmr", start_ts, end_ts, FALSE),
      calories_active_avg |-> get_col_avg(rows, "calories_active", start_ts, end_ts, FALSE) ]

\* no call passes the zero-exclusion argument: it keeps its default
DailySummary_get_stats(rows, start_ts, end_ts) ==
    [ rhr_avg |-> get_col_avg(rows, "rhr", start_ts, end_ts, FALSE),
      rhr_min |-> get_col_min(rows, "rhr", start_ts, end_ts, FALSE),
      rhr_max |-> get_col_max(rows, "rhr", start_ts, end_ts),
      stress_avg |-> get_col_avg(rows, "stress_avg", start_ts, end_ts, FALSE),
      steps |-> get_col_sum(rows, "steps", start_ts, end_ts),
      steps_goal |-> get_col_sum(rows, "step_goal", start_ts, end_ts),
      floors |-> get_col_sum(rows, "floors_up", start_ts, end_ts),
      floors_goal |-> get_col_sum(rows, "floors_goal", start_ts, end_ts),
      calories_goal |-> get_col_avg(rows, "calories_goal", start_ts, end_ts, FALSE),
      intensity_time |->
          get_time_col_sum(with_intensity_time(rows), "intensity_time", start_ts, end_ts),
      moderate_activity_time |->
          get_time_col_sum(rows, "moderate_activity_time", start_ts, end_ts),
      vigorous_activity_time |->
          get_time_col_sum(rows, "vigorous_activity_time", start_ts, end_ts),
      intensity_time_goal |->
          get_time_col_avg(rows, "intensity_time_goal", start_ts, end_ts),
      calories_avg |-> get_col_avg(rows, "calories_total", start_ts, end_ts, FALSE),
      calories_bmr_avg |-> get_col_avg(rows, "calories_bmr", start_ts, end_ts, FALSE),
      calories_active_avg |-> get_col_avg(rows, "calories_active", start_ts, end_ts, FALSE) ]

DailySummary_get_daily_stats_with_weekly_goal(rows, day_ts) ==
    [ day |-> day_ts ] @@ DailySummary_get_stats(rows, day_ts, day_ts + timedelta(1))

\* the weekly goal of the day divided by 7, on total seconds
DailySummary_get_daily_stats(rows, day_ts) ==
    LET stats == DailySummary_get_stats(rows, day_ts, day_ts + timedelta(1))
        goal  == stats.intensity_time_goal
    IN  [ day |-> day_ts ] @@
        [ stats EXCEPT !.intensity_time_goal =
            IF goal = NULL
            THEN NULL
            ELSE time_from_secs(Some(time_to_secs(Get(goal)) \div DaysPerWeek)) ]

\* what a call returns that raised instead
Raised == [ raised |-> TRUE ]

HasRaised(stats) == "raised" \in DOMAIN stats

\* the goal of a month is the four weekly averages added up; add_time takes
\* the total seconds of both operands, which an average of no row lacks
DailySummary_get_monthly_stats(rows, first_day_ts, last_day_ts) ==
    LET stats == DailySummary_get_stats(rows, first_day_ts, last_day_ts)
        first_week_end  == first_day_ts + timedelta(7)
        second_week_end == first_day_ts + timedelta(14)
        third_week_end  == first_day_ts + timedelta(21)
        fourth_week_end == first_day_ts + timedelta(28)
        first_week  ==
            get_time_col_avg(rows, "intensity_time_goal", first_day_ts, first_week_end)
        second_week ==
            get_time_col_avg(rows, "intensity_time_goal", first_week_end, second_week_end)
        third_week  ==
            get_time_col_avg(rows, "intensity_time_goal", second_week_end, third_week_end)
        fourth_week ==
            get_time_col_avg(rows, "intensity_time_goal", third_week_end, fourth_week_end)
    IN  IF NULL \in { first_week, second_week, third_week, fourth_week }
        THEN Raised
        ELSE [ first_day |-> first_day_ts ] @@
             [ stats EXCEPT !.intensity_time_goal =
                 Some(add_time(add_time(Get(first_week), Get(second_week), 1),
                               add_time(Get(third_week), Get(fourth_week), 1), 1)) ]

----------------------------------------------------------------------------
(* Statistics of the FitBit store: DaysSummary.  Every caller passes       *)
(* cls.get_col_sum as func.                                                *)

\* the truth value of a time: None and midnight are false
Truthy(t) == t # NULL /\ Get(t) # time_min

DaysSummary_get_activity_mins_stats(rows, start_ts, end_ts) ==
    LET moderate_activity_time ==
            min_to_dt_time(Whole(get_col_sum(rows, "fairly_active_mins", start_ts, end_ts)))
        vigorous_activity_time ==
            min_to_dt_time(Whole(get_col_sum(rows, "very_active_mins", start_ts, end_ts)))
        with_moderate ==
            IF Truthy(moderate_activity_time)
            THEN add_time(time_min, Get(moderate_activity_time), 1)
            ELSE time_min
        with_vigorous ==
            IF Truthy(vigorous_activity_time)
            THEN add_time(with_moderate, Get(vigorous_activity_time), 2)
            ELSE with_moderate
    IN  [ intensity_time |-> Some(with_vigorous),
          moderate_activity_time |-> moderate_activity_time,
          vigorous_activity_time |-> vigorous_activity_time ]

DaysSummary_get_floors_stats(rows, start_ts, end_ts) ==
    [ floors |-> get_col_sum(rows, "floors", start_ts, end_ts) ]

DaysSummary_get_steps_stats(rows, start_ts, end_ts) ==
    [ steps |-> get_col_sum(rows, "steps", start_ts, end_ts) ]

DaysSummary_get_weight_stats(rows, start_ts, end_ts) ==
    [ weight_avg |-> get_col_avg(rows, "weight", start_ts, end_ts, TRUE),
      weight_min |-> get_col_min(rows, "weight", start_ts, end_ts, TRUE),
      weight_max |-> get_col_max(rows, "weight", start_ts, end_ts) ]

DaysSummary_get_sleep_stats(rows, start_ts, end_ts) ==
    [ sleep_avg |-> min_to_dt_time(get_col_avg(rows, "asleep_mins", start_ts, end_ts, TRUE)),
      sleep_min |->
          min_to_dt_time(Whole(get_col_min(rows, "asleep_mins", start_ts, end_ts, TRUE))),
      sleep_max |-> min_to_dt_time(Whole(get_col_max(rows, "asleep_mins", start_ts, end_ts))) ]

DaysSummary_get_calories_stats(rows, start_ts, end_ts) ==
    LET calories_bmr_avg == get_col_avg(rows, "calories_bmr", start_ts, end_ts, FALSE)
        calories_active_avg ==
            get_col_avg(rows, "activities_calories", start_ts, end_ts, FALSE)
    IN  [ calories_avg |->
              IF calories_bmr_avg # NULL /\ calories_active_avg # NULL
              THEN Some(FracAdd(Get(calories_bmr_avg), Get(calories_active_avg)))
              ELSE NULL,
          calories_bmr_avg |-> calories_bmr_avg,
          calories_active_avg |-> calories_active_avg ]

DaysSummary_get_daily_stats(rows, day_ts) ==
    [ day |-> day_ts ]
    @@ DaysSummary_get_calories_stats(rows, day_ts, day_ts + timedelta(1))
    @@ DaysSummary_get_sleep_stats(rows, day_ts, day_ts + timedelta(1))
    @@ DaysSummary_get_weight_stats(rows, day_ts, day_ts + timedelta(1))
    @@ DaysSummary_get_steps_stats(rows, day_ts, day_ts + timedelta(1))
    @@ DaysSummary_get_floors_stats(rows, day_ts, day_ts + timedelta(1))
    @@ DaysSummary_get_activity_mins_stats(rows, day_ts, day_ts + timedelta(1))

DaysSummary_get_weekly_stats_of_eight_days(rows, first_day_ts) ==
    [ first_day |-> first_day_ts ]
    @@ DaysSummary_get_calories_stats(rows, first_day_ts, first_day_ts + timedelta(8))
    @@ DaysSummary_get_sleep_stats(rows, first_day_ts, first_day_ts + timedelta(8))
    @@ DaysSummary_get_weight_stats(rows, first_day_ts, first_day_ts + timedelta(8))
    @@ DaysSummary_get_steps_stats(rows, first_day_ts, first_day_ts + timedelta(8))
    @@ DaysSummary_get_floors_stats(rows, first_day_ts, first_day_ts + timedelta(8))
    @@ DaysSummary_get_activity_mins_stats(rows, first_day_ts, first_day_ts + timedelta(8))

DaysSummary_get_weekly_stats(rows, first_day_ts) ==
    [ first_day |-> first_day_ts ]
    @@ DaysSummary_get_calories_stats(rows, first_day_ts, first_day_ts + timedelta(DaysPerWeek))
    @@ DaysSummary_get_sleep_stats(rows, first_day_ts, first_day_ts + timedelta(DaysPerWeek))
    @@ DaysSummary_get_weight_stats(rows, first_day_ts, first_day_ts + timedelta(DaysPerWeek))
    @@ DaysSummary_get_steps_stats(rows, first_day_ts, first_day_ts + timedelta(DaysPerWeek))
    @@ DaysSummary_get_floors_stats(rows, first_day_ts, first_day_ts + timedelta(DaysPerWeek))
    @@ DaysSummary_get_activity_mins_stats(rows, first_day_ts,
                                           first_day_ts + timedelta(DaysPerWeek))

DaysSummary_get_monthly_stats(rows, first_day_ts, last_day_ts) ==
    [ first_day |-> first_day_ts ]
    @@ DaysSummary_get_calories_stats(rows, first_day_ts, last_day_ts)
    @@ DaysSummary_get_sleep_stats(rows, first_day_ts, last_day_ts)
    @@ DaysSummary_get_weight_stats(rows, first_day_ts, last_day_ts)
    @@ DaysSummary_get_steps_stats(rows, first_day_ts, last_day_ts)
    @@ DaysSummary_get_floors_stats(rows, first_day_ts, last_day_ts)
    @@ DaysSummary_get_activity_mins_stats(rows, first_day_ts, last_day_ts)

----------------------------------------------------------------------------
(* Statistics queries on stored summaries.  A store holds the rows of one  *)
(* of the three tables, at most one row a day; a query leaves the rows     *)
(* alone and returns a bundle.  A behaviour asks one query of its store.   *)

\* the days of the calendar the summaries fall on: a week and the day after it
Days == 0 .. DaysPerWeek

\* the day after the last day of the calendar
LastDay == DaysPerWeek + 1

QueryStarts == 0 .. MaxStart

\* a weight of 0 stands for a day without a measurement
Weights == { 0, 60, 70 }

\* the columns of daily_summary the statistics read, for a day of a device
DailySummaryReadings ==
    { \* a day without readings: the durations keep their default
      [ rhr |-> NULL, stress_avg |-> NULL, step_goal |-> NULL, steps |-> NULL,
        moderate_activity_time |-> Some(time_min), vigorous_activity_time |-> Some(time_min),
        intensity_time_goal |-> Some(time_min), floors_up |-> NULL, floors_goal |-> NULL,
        calories_goal |-> NULL, calories_total |-> NULL, calories_bmr |-> NULL,
        calories_active |-> NULL ],
      \* a day of zeros with ten moderate and five vigorous minutes
      [ rhr |-> Some(0), stress_avg |-> Some(0), step_goal |-> Some(0), steps |-> Some(0),
        moderate_activity_time |-> Some(Time(0, 10, 0)),
        vigorous_activity_time |-> Some(Time(0, 5, 0)),
        intensity_time_goal |-> Some(time_min), floors_up |-> Some(0),
        floors_goal |-> Some(0), calories_goal |-> Some(0), calories_total |-> Some(0),
        calories_bmr |-> Some(0), calories_active |-> Some(0) ],
      [ rhr |-> Some(50), stress_avg |-> Some(20), step_goal |-> Some(5), steps |-> Some(3),
        moderate_activity_time |-> Some(time_min),
        vigorous_activity_time |-> Some(Time(0, 5, 0)),
        intensity_time_goal |-> Some(Time(2, 30, 0)), floors_up |-> Some(2),
        floors_goal |-> Some(4), calories_goal |-> Some(10), calories_total |-> Some(9),
        calories_bmr |-> Some(6), calories_active |-> Some(3) ],
      \* a day of a long event
      [ rhr |-> Some(60), stress_avg |-> NULL, step_goal |-> Some(5), steps |-> Some(7),
        moderate_activity_time |-> Some(Time(8, 0, 0)),
        vigorous_activity_time |-> Some(Time(8, 0, 0)),
        intensity_time_goal |-> Some(Time(2, 30, 0)), floors_up |-> NULL,
        floors_goal |-> Some(4), calories_goal |-> Some(10), calories_total |-> Some(12),
        calories_bmr |-> Some(8), calories_active |-> NULL ] }

\* the columns of days_summary the statistics read, for a day of an export
DaysSummaryReadings ==
    { [ steps |-> NULL, floors |-> NULL, weight |-> NULL, fairly_active_mins |-> NULL,
        very_active_mins |-> NULL, asleep_mins |-> NULL, calories_bmr |-> NULL,
        activities_calories |-> NULL ],
      [ steps |-> Some(0), floors |-> Some(0), weight |-> Some(0),
        fairly_active_mins |-> Some(0), very_active_mins |-> Some(0),
        asleep_mins |-> Some(0), calories_bmr |-> Some(0), activities_calories |-> Some(0) ],
      [ steps |-> Some(3), floors |-> Some(2), weight |-> Some(60),
        fairly_active_mins |-> Some(10), very_active_mins |-> Some(5),
        asleep_mins |-> Some(400), calories_bmr |-> Some(6), activities_calories |-> Some(3) ],
      [ steps |-> NULL, floors |-> Some(1), weight |-> Some(60),
        fairly_active_mins |-> NULL, very_active_mins |-> Some(5),
        asleep_mins |-> Some(450), calories_bmr |-> Some(6), activities_calories |-> NULL ],
      [ steps |-> Some(7), floors |-> NULL, weight |-> Some(70),
        fairly_active_mins |-> Some(300), very_active_mins |-> Some(300),
        asleep_mins |-> NULL, calories_bmr |-> Some(8), activities_calories |-> Some(4) ] }

\* the tables of at most MaxRows rows, one a day, with readings of the set
TablesOf(readings) ==
    UNION { { { [ day |-> d ] @@ f[d] : d \in S } : f \in [ S -> readings ] } :
            S \in { T \in SUBSET Days : Cardinality(T) <= MaxRows } }

WeightTables == TablesOf({ [ weight |-> Some(w) ] : w \in Weights })

InitAgg ==
    /\ release = InitialRelease
    /\ reg = Opened.reg
    /\ views = Opened.views
    /\ status = "usable"
    /\ obs = NoObs
    /\ lastOp = "none"
    /\ calls = 0
    /\ issued = NoneIssued
    /\ txn = NoTxn
    /\ step = NoStep
    /\ done = <<>>
    /\ runs = 0
    /\ out = NoOut
    /\ NoSide
    /\ \/ /\ db \in { [ EmptyDb EXCEPT !.weight = t ] : t \in WeightTables }
          /\ daily_summary = {}
          /\ days_summary = {}
       \/ /\ db = EmptyDb
          /\ daily_summary \in TablesOf(DailySummaryReadings)
          /\ days_summary = {}
       \/ /\ db = EmptyDb
          /\ daily_summary = {}
          /\ days_summary \in TablesOf(DaysSummaryReadings)

Answer(q, a, b, stats) ==
    /\ out = NoOut
    /\ out' = [ q |-> q, a |-> a, b |-> b, stats |-> stats ]
    /\ UNCHANGED <<release, reg, views, status, obs, lastOp, db, upsertVars, ingestVars,
                   daily_summary, days_summary, sideVars>>

\* Weight.get_stats(session, start_ts, end_ts)
WeightStats ==
    /\ db.weight # {}
    /\ \E a \in QueryStarts : \E b \in a .. LastDay :
          Answer("Weight.get_stats", a, b, Weight_get_stats(db.weight, a, b))

\* DailySummary.get_stats(session, start_ts, end_ts)
DailySummaryStats ==
    /\ daily_summary # {}
    /\ \E a \in QueryStarts : \E b \in a .. LastDay :
          Answer("DailySummary.get_stats", a, b, DailySummary_get_stats(daily_summary, a, b))

\* DailySummary.get_daily_stats(session, day_ts)
DailySummaryDaily ==
    /\ daily_summary # {}
    /\ \E d \in Days :
          Answer("DailySummary.get_daily_stats", d, d,
                 DailySummary_get_daily_stats(daily_summary, d))

\* a row of daily_summary is loaded and its intensity_time read, in both forms
DailySummaryRecord ==
    \E r \in daily_summary :
        Answer("DailySummary.intensity_time", r.day, r.day,
               [ moderate_activity_time |-> r.moderate_activity_time,
                 vigorous_activity_time |-> r.vigorous_activity_time,
                 intensity_time |-> Some(intensity_time(r)),
                 expression |-> intensity_time_expression(r) ])

\* DaysSummary.get_daily_stats(db, day_ts)
DaysSummaryDaily ==
    /\ days_summary # {}
    /\ \E d \in Days :
          Answer("DaysSummary.get_daily_stats", d, d,
                 DaysSummary_get_daily_stats(days_summary, d))

\* DaysSummary.get_weekly_stats(db, first_day_ts)
DaysSummaryWeekly ==
    /\ days_summary # {}
    /\ \E a \in QueryStarts :
          Answer("DaysSummary.get_weekly_stats", a, a,
                 DaysSummary_get_weekly_stats(days_summary, a))

\* DaysSummary.get_monthly_stats(db, first_day_ts, last_day_ts)
DaysSummaryMonthly ==
    /\ days_summary # {}
    /\ \E a \in QueryStarts : \E b \in a .. LastDay :
          Answer("DaysSummary.get_monthly_stats", a, b,
                 DaysSummary_get_monthly_stats(days_summary, a, b))

NextAgg ==
    \/ WeightStats
    \/ DailySummaryStats
    \/ DailySummaryDaily
    \/ DailySummaryRecord
    \/ DaysSummaryDaily
    \/ DaysSummaryWeekly
    \/ DaysSummaryMonthly

SpecAgg == InitAgg /\ [][NextAgg]_vars

----------------------------------------------------------------------------
(* Monthly statistics of daily_summary.  The rows fall on the first and    *)
(* last days of the four weeks of a month and on the days after them.      *)

MonthDays == { 0, 6, 7, 13, 14, 21, 27, 28 }

\* the days of a month
MonthLengths == 28 .. 31

\* weekly goals of intensity time: 150 minutes, and seven hours
MonthGoals == { Time(2, 30, 0), Time(7, 0, 0) }

MonthReadings ==
    { [ rhr |-> Some(50), stress_avg |-> Some(20), step_goal |-> Some(5), steps |-> Some(3),
        moderate_activity_time |-> Some(Time(0, 10, 0)),
        vigorous_activity_time |-> Some(Time(0, 5, 0)),
        intensity_time_goal |-> Some(g), floors_up |-> Some(2),
        floors_goal |-> Some(4), calories_goal |-> Some(10), calories_total |-> Some(9),
        calories_bmr |-> Some(6), calories_active |-> Some(3) ] : g \in MonthGoals }

MonthTables ==
    UNION { { { [ day |-> d ] @@ f[d] : d \in S } : f \in [ S -> MonthReadings ] } :
            S \in { T \in SUBSET MonthDays : Cardinality(T) <= MaxMonthRows } }

InitMonth ==
    /\ release = InitialRelease
    /\ reg = Opened.reg
    /\ views = Opened.views
    /\ status = "usable"
    /\ obs = NoObs
    /\ lastOp = "none"
    /\ db = EmptyDb
    /\ calls = 0
    /\ issued = NoneIssued
    /\ txn = NoTxn
    /\ step = NoStep
    /\ done = <<>>
    /\ runs = 0
    /\ out = NoOut
    /\ NoSide
    /\ daily_summary \in MonthTables
    /\ days_summary = {}

\* DailySummary.get_monthly_stats(session, first_day_ts, last_day_ts)
DailySummaryMonthly ==
    /\ daily_summary # {}
    /\ \E a \in QueryStarts : \E n \in MonthLengths :
          Answer("DailySummary.get_monthly_stats", a, a + n,
                 DailySummary_get_monthly_stats(daily_summary, a, a + n))

NextMonth == DailySummaryMonthly

SpecMonth == InitMonth /\ [][NextMonth]_vars

----------------------------------------------------------------------------
(* The goal percentages of one daily_summary row, read on the loaded       *)
(* record and asked in a query.                                            *)

PercentRows ==
    [ day : { 0 },
      rhr : { NULL }, stress_avg : { NULL },
      step_goal : { NULL, Some(0), Some(3), Some(7) },
      steps : { NULL, Some(0), Some(3) },
      moderate_activity_time : { Some(time_min), Some(Time(0, 10, 0)) },
      vigorous_activity_time : { Some(time_min), Some(Time(0, 5, 0)) },
      intensity_time_goal : { Some(time_min), Some(Time(2, 30, 0)) },
      floors_up : { NULL, Some(0), Some(2) },
      floors_goal : { NULL, Some(0), Some(3), Some(4) },
      calories_goal : { NULL }, calories_total : { NULL }, calories_bmr : { NULL },
      calories_active : { NULL } ]

InitPercent ==
    /\ release = InitialRelease
    /\ reg = Opened.reg
    /\ views = Opened.views
    /\ status = "usable"
    /\ obs = NoObs
    /\ lastOp = "none"
    /\ db = EmptyDb
    /\ calls = 0
    /\ issued = NoneIssued
    /\ txn = NoTxn
    /\ step = NoStep
    /\ done = <<>>
    /\ runs = 0
    /\ out = NoOut
    /\ NoSide
    /\ \E r \in PercentRows : daily_summary = { r }
    /\ days_summary = {}

\* the row is loaded and its computed columns are read
LoadPercents ==
    \E r \in daily_summary :
        Answer("DailySummary.goal_percent", r.day, r.day,
               [ intensity_time |-> Some(intensity_time(r)),
                 intensity_time_goal_percent |-> intensity_time_goal_percent(r),
                 steps_goal_percent |-> steps_goal_percent(r),
                 floors_goal_percent |-> floors_goal_percent(r) ])

\* the computed columns of the row are asked in a query
QueryPercents ==
    \E r \in daily_summary : \E truncating \in BOOLEAN :
        Answer("DailySummary.goal_percent.expression", r.day, r.day,
               [ truncating |-> truncating,
                 intensity_time |-> intensity_time_expression(r),
                 intensity_time_goal_percent |->
                     intensity_time_goal_percent_expression(r, truncating),
                 steps_goal_percent |-> steps_goal_percent_expression(r, truncating),
                 floors_goal_percent |-> floors_goal_percent_expression(r) ])

\* the row is loaded and, in a query, its computed columns are asked as well
LoadAndQueryPercents ==
    \E r \in daily_summary : \E truncating \in BOOLEAN :
        Answer("DailySummary.goal_percent.both", r.day, r.day,
               [ truncating |-> truncating,
                 loaded |->
                     [ intensity_time |-> Some(intensity_time(r)),
                       intensity_time_goal_percent |-> intensity_time_goal_percent(r),
                       steps_goal_percent |-> steps_goal_percent(r),
                       floors_goal_percent |-> floors_goal_percent(r) ],
                 expression |->
                     [ intensity_time |-> intensity_time_expression(r),
                       intensity_time_goal_percent |->
                           intensity_time_goal_percent_expression(r, truncating),
                       steps_goal_percent |-> steps_goal_percent_expression(r, truncating),
                       floors_goal_percent |-> floors_goal_percent_expression(r) ] ])

NextPercent == LoadPercents \/ QueryPercents \/ LoadAndQueryPercents

SpecPercent == InitPercent /\ [][NextPercent]_vars

----------------------------------------------------------------------------
(* The cross-vendor enum unifier (HealthDB.derived_enum) and the two       *)
(* enums GarminDB derives with it.                                         *)

MaxCanonical == 3

Member(n, v) == [ name |-> n, value |-> v ]

\* asking an enum for a name it has no member of
KeyError == Member("KeyError", -1)

\* asking an enum for a value it cannot resolve
ValueError == Member("ValueError", -1)

NamesOf(members) == { m.name : m \in members }

ValuesOf(members) == { m.value : m \in members }

\* the canonical members under the prefix, then the extra values on top of them
derive(name, base_enum, extra_values, prefix) ==
    LET canonical == { Member(prefix \o m.name, m.value) : m \in base_enum }
    IN  [ name |-> name,
          members |-> { m \in canonical : m.name \notin NamesOf(extra_values) }
                          \cup extra_values,
          prefix |-> prefix ]

\* the member unrecognized raw values resolve to
unknown_member(enum) ==
    IF "Unknown" \in NamesOf(enum.members)
    THEN CHOOSE m \in enum.members : m.name = "Unknown"
    ELSE IF (enum.prefix \o "unknown") \in NamesOf(enum.members)
    THEN CHOOSE m \in enum.members : m.name = enum.prefix \o "unknown"
    ELSE ValueError

lookup_by_value(enum, raw) ==
    IF raw \in ValuesOf(enum.members)
    THEN CHOOSE m \in enum.members : m.value = raw
    ELSE unknown_member(enum)

lookup_by_name(enum, n) ==
    IF n \in NamesOf(enum.members)
    THEN CHOOSE m \in enum.members : m.name = n
    ELSE KeyError

Manufacturer_extra == { Member("Microsoft", 100001), Member("Unknown", 100000) }

Device_Manufacturer_canonical_only(base_enum) ==
    derive("Manufacturer", base_enum, {}, "")

Device_Manufacturer(base_enum) ==
    derive("Manufacturer", base_enum, Manufacturer_extra, "")

fit_file_types_prefix == "fit_"

FileType_extra == { Member("tcx", 100001), Member("gpx", 100002) }

File_FileType_gpx_on_tcx(base_enum) ==
    derive("FileType", base_enum,
           { Member("tcx", 100001), Member("gpx", 100001) }, fit_file_types_prefix)

File_FileType(base_enum) ==
    derive("FileType", base_enum, FileType_extra, fit_file_types_prefix)

\* the unifier's worked example: an extension of one name
Example_extra == { Member("foo", 100000) }

Example(base_enum) == derive("Example", base_enum, Example_extra, "")

----------------------------------------------------------------------------
(* SpecEnum: a class derives its enum from a canonical enum, and a name or *)
(* a raw value is looked up in it.                                         *)

CanonicalNames == { "unknown", "garmin", "activity" }

\* a canonical enum: names, "unknown" among them, on distinct small integers
CanonicalEnums ==
    UNION { { { Member(n, f[n]) : n \in S } :
                f \in { g \in [S -> 0 .. MaxCanonical] :
                            \A x, y \in S : x # y => g[x] # g[y] } } :
            S \in { T \in SUBSET CanonicalNames : "unknown" \in T } }

NamesAsked ==
    NamesOf(Manufacturer_extra) \cup NamesOf(FileType_extra) \cup NamesOf(Example_extra)
        \cup { "unknown", "fit_unknown" }

RawValues == (0 .. MaxCanonical + 1) \cup { 999, 100000, 100001, 100002, 100003 }

InitEnum ==
    /\ release = InitialRelease
    /\ reg = Opened.reg
    /\ views = Opened.views
    /\ status = "usable"
    /\ obs = NoObs
    /\ lastOp = "none"
    /\ db = EmptyDb
    /\ calls = 0
    /\ issued = NoneIssued
    /\ txn = NoTxn
    /\ step = NoStep
    /\ done = <<>>
    /\ runs = 0
    /\ NoSummaries
    /\ NoSide

Derived(enum) ==
    /\ unified' = enum
    /\ UNCHANGED <<release, reg, views, status, obs, lastOp, db, upsertVars, ingestVars,
                   queryVars, resting_hr, stress, download>>

DeriveManufacturer ==
    /\ unified = NoEnum
    /\ \E base_enum \in CanonicalEnums : Derived(Device_Manufacturer(base_enum))

DeriveFileType ==
    /\ unified = NoEnum
    /\ \E base_enum \in CanonicalEnums : Derived(File_FileType(base_enum))

DeriveExample ==
    /\ unified = NoEnum
    /\ \E base_enum \in CanonicalEnums : Derived(Example(base_enum))

LookupName ==
    /\ unified # NoEnum
    /\ \E n \in NamesAsked :
           Answer("enum.by_name", 0, 0,
                  [ asked |-> n, member |-> lookup_by_name(unified, n) ])

LookupValue ==
    /\ unified # NoEnum
    /\ \E raw \in RawValues :
           Answer("enum.by_value", raw, raw, [ member |-> lookup_by_value(unified, raw) ])

NextEnum == DeriveManufacturer \/ DeriveFileType \/ DeriveExample \/ LookupName \/ LookupValue

SpecEnum == InitEnum /\ [][NextEnum]_vars

----------------------------------------------------------------------------
(* The derived views of the files and of the device info                   *)
(* (HealthDB.DBObject.create_join_view and create_multi_join_view, from    *)
(* the design specification, section 4.5, on the joins garmin_db.py lists).*)

MaxViewRows == 2

\* a nullable column equals a key when it is given and is that key
Equals(col, key) == col # NULL /\ Get(col) = key

JoinedTimestamp(j) == j.device_info.timestamp

\* ORDER BY timestamp DESC: every joined row once, no row before one of a
\* later timestamp; the order of rows of equal timestamps is the engine's
order_by_desc(joined) ==
    { s \in [1 .. Cardinality(joined) -> joined] :
        \A i, j \in 1 .. Cardinality(joined) :
            i < j => s[i] # s[j] /\ JoinedTimestamp(s[i]) >= JoinedTimestamp(s[j]) }

\* File JOIN Device ON File.serial_number = Device.serial_number, then
\* JOIN DeviceInfo, matched on the serial number where the file id is meant
File_joined_on_serial_number(tabs) ==
    { j \in [ file : tabs.files, device : tabs.devices, device_info : tabs.device_info ] :
        /\ Equals(j.file.serial_number, j.device.serial_number)
        /\ Equals(j.file.serial_number, j.device_info.serial_number) }

\* File JOIN Device ON File.serial_number = Device.serial_number, then
\* JOIN DeviceInfo ON File.id = DeviceInfo.file_id: the rows of the product
\* that both conditions hold for
File_joined(tabs) ==
    { j \in [ file : tabs.files, device : tabs.devices, device_info : tabs.device_info ] :
        /\ Equals(j.file.serial_number, j.device.serial_number)
        /\ Equals(j.device_info.file_id, j.file.id) }

File_columns(j) ==
    [ timestamp |-> j.device_info.timestamp,
      activity_id |-> j.file.id,
      name |-> j.file.name,
      type |-> j.file.type,
      manufacturer |-> j.device.manufacturer,
      product |-> j.device.product,
      serial_number |-> j.device.serial_number ]

\* the rows a read of the files view may return
File_create_view(tabs) ==
    { [ i \in DOMAIN s |-> File_columns(s[i]) ] :
        s \in order_by_desc(File_joined(tabs)) }

\* DeviceInfo JOIN Device, on the foreign key serial_number
DeviceInfo_joined(tabs) ==
    { j \in [ device_info : tabs.device_info, device : tabs.devices ] :
        j.device_info.serial_number = j.device.serial_number }

DeviceInfo_columns(j) ==
    [ timestamp |-> j.device_info.timestamp,
      file_id |-> j.device_info.file_id,
      serial_number |-> j.device_info.serial_number,
      device_type |-> j.device_info.device_type,
      software_version |-> j.device_info.software_version,
      manufacturer |-> j.device.manufacturer,
      product |-> j.device.product,
      hardware_version |-> j.device.hardware_version ]

\* the rows a read of the device info view may return
DeviceInfo_create_view(tabs) ==
    { [ i \in DOMAIN s |-> DeviceInfo_columns(s[i]) ] :
        s \in order_by_desc(DeviceInfo_joined(tabs)) }

----------------------------------------------------------------------------
(* SpecView: a store the ingestion has filled, and one read of a view.     *)

ViewDevices ==
    [ serial_number : Serials, manufacturer : { Some("Garmin") },
      product : { Some("fenix") }, hardware_version : { NULL } ]

ViewFileIds == { "1", "2" }

ViewFiles ==
    { [ id |-> i, name |-> i \o ".fit", type |-> "fit_activity", serial_number |-> s ] :
        i \in ViewFileIds, s \in { NULL } \cup { Some(n) : n \in Serials } }

ViewTimestamps == { 1, 2 }

ViewDeviceInfos ==
    [ timestamp : ViewTimestamps, serial_number : Serials, device_type : { Some("watch") },
      file_id : { NULL } \cup { Some(i) : i \in ViewFileIds },
      software_version : { Some("v1") } ]

\* device info rows as the upsert leaves them: ids counted from 1, no two
\* rows of the same match columns
ViewDeviceInfoTables ==
    UNION { { { [ id |-> i ] @@ s[i] : i \in 1 .. n } :
                s \in { t \in [1 .. n -> ViewDeviceInfos] :
                          \A i, j \in 1 .. n :
                              i # j => \E c \in match_col_names["device_info"] :
                                           t[i][c] # t[j][c] } } :
            n \in 0 .. MaxViewRows }

\* the tables upserts can have left: a key names one row and every foreign
\* key given names a row
ViewStores ==
    { tabs \in [ devices : SUBSET ViewDevices, files : SUBSET ViewFiles,
                 device_info : ViewDeviceInfoTables, weight : { {} } ] :
        /\ \A f1, f2 \in tabs.files : f1.id = f2.id => f1 = f2
        /\ \A e \in { "files", "device_info" } : \A r \in tabs[e] :
               MissingReferents(tabs, e, r) = {} }

InitView ==
    /\ release = InitialRelease
    /\ reg = Opened.reg
    /\ views = Opened.views
    /\ status = "usable"
    /\ obs = NoObs
    /\ lastOp = "none"
    /\ db \in ViewStores
    /\ calls = 0
    /\ issued = NoneIssued
    /\ txn = NoTxn
    /\ step = NoStep
    /\ done = <<>>
    /\ runs = 0
    /\ NoSummaries
    /\ NoSide

ReadFilesView ==
    /\ views["files"] # NULL
    /\ \E rows \in File_create_view(db) : Answer("files_view", 0, 0, [ rows |-> rows ])

ReadDeviceInfoView ==
    /\ views["device_info"] # NULL
    /\ \E rows \in DeviceInfo_create_view(db) :
           Answer("device_info_view", 0, 0, [ rows |-> rows ])

NextView == ReadFilesView \/ ReadDeviceInfoView

SpecView == InitView /\ [][NextView]_vars

----------------------------------------------------------------------------
(* SpecVitals: the tables of resting heart rates and of stress readings,   *)
(* and one query of their statistics.                                      *)

RestingHeartRates == { NULL, Some(0), Some(50), Some(60) }

\* stress is not nullable
StressLevels == { 0, 20, 30 }

RestingHeartRateTables == TablesOf({ [ resting_heart_rate |-> v ] : v \in RestingHeartRates })

\* the time of a stress reading is told in days
StressTables == TablesOf({ [ stress |-> Some(v) ] : v \in StressLevels })

InitVitals ==
    /\ release = InitialRelease
    /\ reg = Opened.reg
    /\ views = Opened.views
    /\ status = "usable"
    /\ obs = NoObs
    /\ lastOp = "none"
    /\ db = EmptyDb
    /\ calls = 0
    /\ issued = NoneIssued
    /\ txn = NoTxn
    /\ step = NoStep
    /\ done = <<>>
    /\ runs = 0
    /\ NoSummaries
    /\ unified = NoEnum
    /\ download = NoDownload
    /\ \/ resting_hr \in RestingHeartRateTables /\ stress = {}
       \/ resting_hr = {} /\ stress \in StressTables

\* RestingHeartRate.get_stats(session, start_ts, end_ts)
RestingHeartRateStats ==
    /\ resting_hr # {}
    /\ \E a \in QueryStarts : \E b \in a .. LastDay :
          Answer("RestingHeartRate.get_stats", a, b,
                 RestingHeartRate_get_stats(resting_hr, a, b))

\* Stress.get_stats(session, start_ts, end_ts)
StressStats ==
    /\ stress # {}
    /\ \E a \in QueryStarts : \E b \in a .. LastDay :
          Answer("Stress.get_stats", a, b, Stress_get_stats(stress, a, b))

NextVitals == RestingHeartRateStats \/ StressStats

SpecVitals == InitVitals /\ [][NextVitals]_vars

----------------------------------------------------------------------------
(* SpecDownload: Download.__get_stat (download_garmin.py) asks a per-day    *)
(* download function for the days date .. date + days, one after another.  *)
(* Dates are told in days; the clock may pass midnight while the loop runs.*)

MaxDays == 2

MaxOverlap == 1

MaxMidnights == 1

DownloadDates == 0 .. MaxDays

Clock == 0 .. MaxDays + 1

\* the third argument of stat_function, without the caller's flag
overwrite_argument_of_recent_days_only(overwite, now, download_date, download_days_overlap) ==
    timedelta(now - download_date) <= download_days_overlap

\* the third argument of stat_function: overwite or delta.days <= self.download_days_overlap
overwrite_argument(overwite, now, download_date, download_days_overlap) ==
    overwite \/ timedelta(now - download_date) <= download_days_overlap

InitDownload ==
    /\ release = InitialRelease
    /\ reg = Opened.reg
    /\ views = Opened.views
    /\ status = "usable"
    /\ obs = NoObs
    /\ lastOp = "none"
    /\ db = EmptyDb
    /\ calls = 0
    /\ issued = NoneIssued
    /\ txn = NoTxn
    /\ step = NoStep
    /\ done = <<>>
    /\ runs = 0
    /\ NoSummaries
    /\ unified = NoEnum
    /\ resting_hr = {}
    /\ stress = {}
    /\ \E overlap \in 0 .. MaxOverlap : \E now \in Clock :
           download = [ NoDownload EXCEPT !.download_days_overlap = overlap, !.now = now ]

DownloadStep(next) ==
    /\ download' = next
    /\ UNCHANGED <<release, reg, views, status, obs, lastOp, db, upsertVars, ingestVars,
                   queryVars, unified, resting_hr, stress>>

\* __get_stat(stat_function, directory, date, days, overwite) is called
GetStat ==
    /\ download.pc = "idle"
    /\ \E date \in DownloadDates : \E days \in -1 .. MaxDays : \E overwite \in BOOLEAN :
           DownloadStep([ download EXCEPT !.pc = "loop", !.date = date, !.days = days,
                                          !.overwite = overwite, !.day = 0 ])

\* one turn of the loop: the day is requested; a request that reports
\* failure ends the loop, any other is followed by the pause
GetStatDay ==
    /\ download.pc = "loop"
    /\ download.day < download.days + 1
    /\ \E ok \in BOOLEAN :
           LET download_date == download.date + timedelta(download.day)
               request ==
                   [ date |-> download_date,
                     overwite |-> overwrite_argument(download.overwite, download.now,
                                                     download_date,
                                                     download.download_days_overlap),
                     now |-> download.now,
                     ok |-> ok ]
           IN  DownloadStep([ download EXCEPT
                                !.requests = Append(@, request),
                                !.day = IF ok THEN @ + 1 ELSE @,
                                !.pc = IF ok THEN "loop" ELSE "returned" ])

\* xrange(0, days + 1) is through
GetStatReturn ==
    /\ download.pc = "loop"
    /\ ~ (download.day < download.days + 1)
    /\ DownloadStep([ download EXCEPT !.pc = "returned" ])

\* midnight passes during the run
Midnight ==
    /\ download.pc = "loop"
    /\ download.midnights < MaxMidnights
    /\ DownloadStep([ download EXCEPT !.now = @ + 1, !.midnights = @ + 1 ])

NextDownload == GetStat \/ GetStatDay \/ GetStatReturn \/ Midnight

SpecDownload == InitDownload /\ [][NextDownload]_vars

----------------------------------------------------------------------------
(* Claims on the upsert.                                                   *)

\* entity e holds exactly one row per natural key issued, carrying the
\* columns of the last upsert issued for that key
OneRowPerKey(e) ==
    /\ \A h \in issued[e] :
           /\ Cardinality({ r \in db[e] : SameKey(e, r, h) }) = 1
           /\ \A r \in db[e] : SameKey(e, r, h) => \A c \in DOMAIN h : r[c] = h[c]
    /\ Cardinality(db[e]) = Cardinality(issued[e])

\* C1: after any sequence of upsert calls on one entity the table holds exactly
\* one row per distinct natural key (the match columns, or the primary key when
\* none are declared), with the non-key columns of the last upsert of that key
C1_OneRowPerNaturalKey == \A e \in Entities : OneRowPerKey(e)

\* the same for the entities whose natural key is, or determines, the primary key
C1_HoldsForDeviceDeviceInfoWeight ==
    \A e \in { "devices", "device_info", "weight" } : OneRowPerKey(e)

----------------------------------------------------------------------------
(* Claims on the store open.                                               *)

\* the registry and the views agree with the versions the code declares
Reconciled(r, vs, code) ==
    /\ r.db = Some(code.db)
    /\ \A t \in TableNames : r.tv[t] = Some(code.tv[t])
    /\ \A t \in ViewTables : r.vv[t] = Some(code.vv[t]) /\ vs[t] = Some(code.vv[t])

\* C2: an open that finds an entity table's stored version below the declared
\* table_version fails: the store does not become usable, the stored version is
\* left as it was (no migration) and no row of an entity table is changed
C2_StaleTableRefusesOpen ==
    (obs.opened /\ Stale(obs.before, obs.code) # {}) =>
        /\ ~ obs.ok
        /\ status = "closed"
        /\ lastOp = "none"
        /\ db = obs.dbBefore
        /\ \A t \in Stale(obs.before, obs.code) : reg.tv[t] = obs.before.tv[t]

\* a refused open that left the stored rows alone
C2_Witness ==
    /\ obs.opened
    /\ Stale(obs.before, obs.code) # {}
    /\ ~ obs.ok
    /\ db.weight # {}

Rebuilt(t) == t \in obs.dropped /\ t \in obs.created

C4_ReconciledBeforeUse ==
    /\ lastOp # "none" =>
           /\ obs.opened
           /\ obs.ok
           /\ obs.checked = tables
           /\ Reconciled(reg, views, obs.code)
    /\ status = "usable" =>
           /\ obs.ok
           /\ obs.checked = tables
           /\ Reconciled(reg, views, release)

\* an upsert accepted on a store opened for the second time
C4_Witness ==
    /\ lastOp = "upsert"
    /\ status = "usable"
    /\ obs.second
    /\ db.weight # {}

----------------------------------------------------------------------------
(* Claims on the ingestion.                                                *)

\* C5: ingestion of one source file is atomic: in every state, also inside a
\* batch and after the program died inside one, the committed tables are those
\* of the whole batches of the files that committed, applied in order; a file
\* whose batch did not commit has left nothing (a record refused inside a batch
\* is an upsert with no effect, and the batch with it is still a whole batch)
C5_FileIngestionAtomic == db = ApplyFiles(EmptyDb, done, 1)

\* the program died after a record of a batch was stored, and the committed
\* tables show nothing of that batch
C5_Witness ==
    /\ status = "closed"
    /\ ~ txn.active
    /\ step.kind = "stored"
    /\ step.after # step.before
    /\ done = <<>>
    /\ db = EmptyDb

\* a foreign key of the record names no row of the tables (DeviceInfo.file_id in
\* files, DeviceInfo.serial_number in devices, File.serial_number in devices)
NamesMissingReferent(tabs, e, rec) ==
    \/ /\ e = "device_info"
       /\ \/ ~ \E d \in tabs.devices : d.serial_number = rec.serial_number
          \/ rec.file_id # NULL /\ ~ \E f \in tabs.files : f.id = Get(rec.file_id)
    \/ /\ e = "files"
       /\ rec.serial_number # NULL
       /\ ~ \E d \in tabs.devices : d.serial_number = Get(rec.serial_number)

NoDanglingReference(tabs) ==
    /\ \A r \in tabs.device_info : ~ NamesMissingReferent(tabs, "device_info", r)
    /\ \A r \in tabs.files : ~ NamesMissingReferent(tabs, "files", r)

\* C6: a record whose foreign key names a missing referent gets a
\* ConstraintViolation for itself only: it is refused exactly then and the
\* tables are left as they were, no stored row ever names a missing referent,
\* and when the caller did not abort, the committed batch holds the upserts of
\* all the other records
C6_MissingReferentRefusesRecordOnly ==
    /\ step.kind # "none" =>
           /\ (step.kind = "rejected") <=> NamesMissingReferent(step.before, step.e, step.rec)
           /\ step.kind = "rejected" => step.after = step.before
    /\ NoDanglingReference(db)
    /\ txn.active => NoDanglingReference(txn.work)
    /\ done # <<>> =>
           LET l == done[Len(done)]
           IN  db = ApplySkipping(l.before, SourceFiles[l.file], l.skipped, 1)

\* a batch committed with a refused record and a later record of it stored
C6_Witness ==
    /\ done # <<>>
    /\ done[Len(done)].file = "mixed"
    /\ done[Len(done)].skipped = { 2 }
    /\ \E w \in db.weight : w.day = 0 /\ w.weight = Some(60)

----------------------------------------------------------------------------
(* Claims on the statistics.                                               *)

FitBitQueries ==
    { "DaysSummary.get_daily_stats", "DaysSummary.get_weekly_stats",
      "DaysSummary.get_monthly_stats" }

\* the day after the last day the query of out covers
RangeEnd ==
    CASE out.q \in { "Weight.get_stats", "DailySummary.get_stats",
                     "DaysSummary.get_monthly_stats", "RestingHeartRate.get_stats",
                     "Stress.get_stats" } -> out.b
      [] out.q = "DaysSummary.get_weekly_stats" -> out.a + 7
      [] OTHER -> out.a + 1

\* the value a table holds on a day, 0 where it holds none
ValueOn(rows, col, d) ==
    LET held == { r \in rows : r.day = d /\ r[col] # NULL }
    IN  IF held = {} THEN 0 ELSE Get((CHOOSE r \in held : TRUE)[col])

\* the sum of the values a table holds on the days a <= d < b
RECURSIVE TotalOver(_, _, _, _)
TotalOver(rows, col, a, b) ==
    IF a >= b THEN 0 ELSE ValueOn(rows, col, a) + TotalOver(rows, col, a + 1, b)

IsLeast(v, rows, col) ==
    /\ v # NULL
    /\ \E r \in rows : Get(v) = Get(r[col])
    /\ \A r \in rows : Get(v) <= Get(r[col])

IsGreatest(v, rows, col) ==
    /\ v # NULL
    /\ \E r \in rows : Get(v) = Get(r[col])
    /\ \A r \in rows : Get(v) >= Get(r[col])

IsAverage(v, total, count) ==
    /\ v # NULL
    /\ Get(v).num * count = Get(v).den * total

\* the table of weights the query of out reads
QueriedWeights == IF out.q = "Weight.get_stats" THEN db.weight ELSE days_summary

\* C7: when the rows of the queried range hold both zero and non-zero
\* weights, weight_min and weight_avg (asked with the zero exclusion) are
\* the least and the average of the non-zero weights only, and weight_max
\* (asked without it) is the greatest of all non-null weights, the zeros
\* included.  For Weight.get_stats and the FitBit weight statistics.
C7_MinAndAvgIgnoreZerosMaxDoesNot ==
    out.q \in { "Weight.get_stats" } \cup FitBitQueries =>
        LET measured == { r \in QueriedWeights :
                            out.a <= r.day /\ r.day < RangeEnd /\ r.weight # NULL }
            nonzero  == { r \in measured : Get(r.weight) # 0 }
        IN  (nonzero # {} /\ nonzero # measured) =>
                /\ IsLeast(out.stats.weight_min, nonzero, "weight")
                /\ IsAverage(out.stats.weight_avg,
                             TotalOver(QueriedWeights, "weight", out.a, RangeEnd),
                             Cardinality(nonzero))
                /\ IsGreatest(out.stats.weight_max, measured, "weight")

\* Weight.get_stats over a day of weight 0 and a day of weight 60
C7_Witness ==
    /\ out.q = "Weight.get_stats"
    /\ \E r \in db.weight : out.a <= r.day /\ r.day < out.b /\ r.weight = Some(0)
    /\ out.stats.weight_min = Some(60)
    /\ out.stats.weight_avg = Some(Frac(60, 1))
    /\ out.stats.weight_max = Some(60)

\* the entries of DailySummary.get_stats on a number column
DailySummaryNumbers ==
    { <<"rhr_avg", "rhr", "avg">>, <<"rhr_min", "rhr", "min">>, <<"rhr_max", "rhr", "max">>,
      <<"stress_avg", "stress_avg", "avg">>, <<"steps", "steps", "sum">>,
      <<"steps_goal", "step_goal", "sum">>, <<"floors", "floors_up", "sum">>,
      <<"floors_goal", "floors_goal", "sum">>, <<"calories_goal", "calories_goal", "avg">>,
      <<"calories_avg", "calories_total", "avg">>,
      <<"calories_bmr_avg", "calories_bmr", "avg">>,
      <<"calories_active_avg", "calories_active", "avg">> }

\* the entries of DailySummary.get_stats on a duration column
DailySummaryDurations ==
    { <<"moderate_activity_time", "moderate_activity_time">>,
      <<"vigorous_activity_time", "vigorous_activity_time">>,
      <<"intensity_time", "moderate_activity_time">>,
      <<"intensity_time_goal", "intensity_time_goal">> }

\* v is null exactly when no row of [a, b) qualifies, and is otherwise op
\* over the qualifying rows alone
Aggregates(v, rows, col, op, a, b, exclude_zero) ==
    LET q == { r \in rows :
                 /\ a <= r.day /\ r.day < b
                 /\ r[col] # NULL
                 /\ exclude_zero => Get(r[col]) # 0 }
    IN  /\ (v = NULL) <=> (q = {})
        /\ q # {} =>
              CASE op = "sum" -> v # NULL /\ Get(v) = TotalOver(rows, col, a, b)
                [] op = "avg" -> IsAverage(v, TotalOver(rows, col, a, b), Cardinality(q))
                [] op = "min" -> IsLeast(v, q, col)
                [] op = "max" -> IsGreatest(v, q, col)

\* C8: an aggregate is null, and not 0, exactly when no row with its time in
\* [start, end) qualifies: a row qualifies when its column is non-null and,
\* with the zero exclusion, not zero.  Otherwise it is the min, max, avg or
\* sum of the qualifying rows alone, so a null is never counted as a zero.
\* For every entry of DailySummary.get_stats and, with the zero exclusion,
\* the entries of Weight.get_stats.
C8_NullExactlyWhenNoQualifyingRow ==
    /\ out.q = "DailySummary.get_stats" =>
          /\ \A e \in DailySummaryNumbers :
                Aggregates(out.stats[e[1]], daily_summary, e[2], e[3], out.a, out.b, FALSE)
          /\ \A e \in DailySummaryDurations :
                (out.stats[e[1]] = NULL) <=>
                    ({ r \in daily_summary :
                         out.a <= r.day /\ r.day < out.b /\ r[e[2]] # NULL } = {})
    /\ out.q = "Weight.get_stats" =>
          /\ Aggregates(out.stats.weight_avg, db.weight, "weight", "avg", out.a, out.b, TRUE)
          /\ Aggregates(out.stats.weight_min, db.weight, "weight", "min", out.a, out.b, TRUE)
          /\ Aggregates(out.stats.weight_max, db.weight, "weight", "max", out.a, out.b, FALSE)

\* DailySummary.get_stats over a day without readings and a day of 7 steps
\* at a resting heart rate of 60 and no stress reading
C8_Witness ==
    /\ out.q = "DailySummary.get_stats"
    /\ Cardinality({ r \in daily_summary : out.a <= r.day /\ r.day < out.b }) = 2
    /\ \E r \in daily_summary : out.a <= r.day /\ r.day < out.b /\ r.steps = NULL
    /\ out.stats.stress_avg = NULL
    /\ out.stats.steps = Some(7)
    /\ out.stats.rhr_avg = Some(Frac(60, 1))
    /\ out.stats.rhr_min = Some(60)


\* the daily rollup of an additive entry on day d, for the vendor of out
DailyValue(entry, d) ==
    IF out.q \in FitBitQueries
    THEN DaysSummary_get_daily_stats(days_summary, d)[entry]
    ELSE DailySummary_get_daily_stats(daily_summary, d)[entry]

\* the sum of the non-null values of daily on the days first .. last
RECURSIVE SumOfDaily(_, _, _)
SumOfDaily(daily, first, last) ==
    IF first > last
    THEN 0
    ELSE (IF daily[first] = NULL THEN 0 ELSE Get(daily[first]))
         + SumOfDaily(daily, first + 1, last)

\* v is the sum of the non-null daily rollups of first .. last, and is null
\* when every one of them is null
ComposedOfDaily(v, entry, first, last) ==
    LET daily == [ d \in first .. last |-> DailyValue(entry, d) ]
    IN  /\ (v = NULL) <=> (\A d \in first .. last : daily[d] = NULL)
        /\ v # NULL => Get(v) = SumOfDaily(daily, first, last)

\* the sum of two rollups of adjacent windows
Together(x, y) ==
    IF x = NULL THEN y ELSE IF y = NULL THEN x ELSE Some(Get(x) + Get(y))

\* the FitBit rollup of an additive entry over [a, b)
DaysSummaryRange(entry, a, b) ==
    IF entry = "steps"
    THEN DaysSummary_get_steps_stats(days_summary, a, b).steps
    ELSE DaysSummary_get_floors_stats(days_summary, a, b).floors

\* C9: steps and floors compose additively.  The weekly rollup of first_day
\* is the sum of the non-null daily rollups of first_day .. first_day + 6;
\* the monthly rollup of (first_day, last_day), and the Garmin range rollup
\* likewise, is the sum of those of the days first_day <= d < last_day; a
\* rollup is null where every daily rollup is.  No day is counted in two
\* adjacent windows: a month cut at any day is the two parts together, and
\* two consecutive weeks are the fortnight.
C9_AdditiveRollupsCompose ==
    \A entry \in { "steps", "floors" } :
        /\ out.q = "DaysSummary.get_weekly_stats" =>
              /\ ComposedOfDaily(out.stats[entry], entry, out.a, out.a + 6)
              /\ Together(out.stats[entry],
                          DaysSummary_get_weekly_stats(days_summary, out.a + 7)[entry])
                 = DaysSummaryRange(entry, out.a, out.a + 14)
        /\ out.q = "DaysSummary.get_monthly_stats" =>
              /\ ComposedOfDaily(out.stats[entry], entry, out.a, out.b - 1)
              /\ \A cut \in out.a .. out.b :
                    out.stats[entry]
                    = Together(DaysSummaryRange(entry, out.a, cut),
                               DaysSummaryRange(entry, cut, out.b))
        /\ out.q = "DailySummary.get_stats" =>
              ComposedOfDaily(out.stats[entry], entry, out.a, out.b - 1)

\* the week of day 1 over 3 steps on day 1 and 7 steps on day 7
C9_Witness ==
    /\ out.q = "DaysSummary.get_weekly_stats"
    /\ out.a = 1
    /\ \E r \in days_summary : r.day = 1 /\ r.steps = Some(3)
    /\ \E r \in days_summary : r.day = 7 /\ r.steps = Some(7)
    /\ out.stats.steps = Some(10)

\* the total seconds of a nullable duration, none for null
SecsOf(t) == IF t = NULL THEN 0 ELSE time_to_secs(Get(t))

\* moderate + 2 x vigorous of the answer out, in seconds
TrueIntensity ==
    SecsOf(out.stats.moderate_activity_time) + 2 * SecsOf(out.stats.vigorous_activity_time)

IsTimeOfDay(t) ==
    /\ t # NULL
    /\ Get(t).h \in 0 .. 23
    /\ Get(t).m \in 0 .. 59
    /\ Get(t).s \in 0 .. 59

\* C10: intensity_time is moderate_activity_time + 2 x vigorous_activity_time,
\* computed on total seconds and converted back to a duration, for the
\* computed column of a loaded DailySummary record (in both its forms) and
\* for the entry of the FitBit bundles built by get_activity_mins_stats.
C10_IntensityTimeIsModeratePlusTwiceVigorous ==
    /\ out.q = "DailySummary.intensity_time" =>
          /\ IsTimeOfDay(out.stats.intensity_time)
          /\ time_to_secs(Get(out.stats.intensity_time)) = TrueIntensity
          /\ out.stats.expression = out.stats.intensity_time
    /\ out.q \in FitBitQueries =>
          /\ IsTimeOfDay(out.stats.intensity_time)
          /\ time_to_secs(Get(out.stats.intensity_time)) = TrueIntensity

\* C10, where it holds: intensity_time is the sum whenever the sum is less
\* than a day, and is the sum less the whole days in it otherwise.
C10_HoldsBelowOneDay ==
    out.q \in { "DailySummary.intensity_time" } \cup FitBitQueries =>
        /\ IsTimeOfDay(out.stats.intensity_time)
        /\ time_to_secs(Get(out.stats.intensity_time)) = TrueIntensity % SecondsPerDay
        /\ out.q = "DailySummary.intensity_time" =>
              out.stats.expression = out.stats.intensity_time

\* ten moderate and five vigorous minutes make twenty minutes
C10_Example ==
    (/\ out.q \in { "DailySummary.intensity_time" } \cup FitBitQueries
     /\ out.stats.moderate_activity_time = Some(Time(0, 10, 0))
     /\ out.stats.vigorous_activity_time = Some(Time(0, 5, 0)))
    => out.stats.intensity_time = Some(Time(0, 20, 0))

----------------------------------------------------------------------------
(* Claims on the monthly and daily goal of intensity time.                 *)

\* the average, in whole seconds, of the goals of the rows of [a, b)
GoalAverage(a, b) ==
    LET goals == secs_from_time(daily_summary, "intensity_time_goal")
    IN  TotalOver(goals, "intensity_time_goal", a, b)
        \div Cardinality({ r \in daily_summary : a <= r.day /\ r.day < b })

\* each of the four weeks from first holds a row
EveryWeekHeld(first) ==
    \A k \in 0 .. 3 :
        \E r \in daily_summary : first + 7 * k <= r.day /\ r.day < first + 7 * k + 7

\* C11: DailySummary.get_monthly_stats(first_day, last_day) sets
\* intensity_time_goal to the sum of the four averages of the goal over the
\* windows [first_day + 7k, first_day + 7k + 7), k = 0..3, and the value is
\* the same for every last_day.
C11_MonthlyGoalIsSumOfFourWeeklyAverages ==
    out.q = "DailySummary.get_monthly_stats" =>
        /\ ~HasRaised(out.stats)
        /\ out.stats.intensity_time_goal # NULL
        /\ time_to_secs(Get(out.stats.intensity_time_goal))
           = GoalAverage(out.a, out.a + 7) + GoalAverage(out.a + 7, out.a + 14)
             + GoalAverage(out.a + 14, out.a + 21) + GoalAverage(out.a + 21, out.a + 28)
        /\ \A n \in MonthLengths :
              LET other == DailySummary_get_monthly_stats(daily_summary, out.a, out.a + n)
              IN  /\ ~HasRaised(other)
                  /\ other.intensity_time_goal = out.stats.intensity_time_goal

\* C11, where it holds: when each of the four weeks holds a row the goal is
\* the sum of the four averages less the whole days in it, whatever last_day.
C11_HoldsWhenEveryWeekHeld ==
    (out.q = "DailySummary.get_monthly_stats" /\ EveryWeekHeld(out.a)) =>
        /\ ~HasRaised(out.stats)
        /\ out.stats.intensity_time_goal # NULL
        /\ time_to_secs(Get(out.stats.intensity_time_goal))
           = (GoalAverage(out.a, out.a + 7) + GoalAverage(out.a + 7, out.a + 14)
              + GoalAverage(out.a + 14, out.a + 21) + GoalAverage(out.a + 21, out.a + 28))
             % SecondsPerDay
        /\ \A n \in MonthLengths :
              DailySummary_get_monthly_stats(daily_summary, out.a, out.a + n).intensity_time_goal
              = out.stats.intensity_time_goal

\* no answer is given for a month one of whose four weeks holds no row
C11_RaisedWhenAWeekIsEmpty ==
    out.q = "DailySummary.get_monthly_stats" =>
        (HasRaised(out.stats) <=> ~EveryWeekHeld(out.a))

----------------------------------------------------------------------------
(* Claims on the goal percentages.                                         *)

PercentQueries == { "DailySummary.goal_percent", "DailySummary.goal_percent.expression" }

\* the row the answer out was computed on
TheRow == CHOOSE r \in daily_summary : r.day = out.a

\* the achieved value and the goal of each percentage, as numbers
Operands(r) ==
    [ steps_goal_percent |-> [ achieved |-> r.steps, goal |-> r.step_goal ],
      floors_goal_percent |-> [ achieved |-> r.floors_up, goal |-> r.floors_goal ],
      intensity_time_goal_percent |->
          [ achieved |-> Some((time_to_secs(Get(r.moderate_activity_time))
                               + 2 * time_to_secs(Get(r.vigorous_activity_time)))
                              % SecondsPerDay),
            goal |-> sql_secs(r.intensity_time_goal) ] ]

Percentages == { "steps_goal_percent", "floors_goal_percent", "intensity_time_goal_percent" }

\* round(achieved x 100 / goal), a half rounded up
RoundedPercent(x) ==
    Number((2 * 100 * Get(x.achieved) + Get(x.goal)) \div (2 * Get(x.goal)), 1)

BothGiven(x) == x.achieved # NULL /\ x.goal # NULL /\ Get(x.goal) # 0

\* C13: each derived percentage is round(achieved x 100 / goal) when both
\* operands are non-null (and the goal is not zero), and is 0, not null and
\* not an error, when the achieved value or the goal is null; in both forms
\* of the computed column.
C13_PercentIsRoundedQuotientOrZero ==
    out.q \in PercentQueries =>
        \A p \in Percentages :
            LET x == Operands(TheRow)[p]
            IN  /\ BothGiven(x) => out.stats[p] = RoundedPercent(x)
                /\ (x.achieved = NULL \/ x.goal = NULL) => out.stats[p] = Number(0, 1)

\* C13, where it holds: the loaded record gives 0 for a null operand, and a
\* query on an engine that keeps the quotient gives the rounded quotient.
\* Elsewhere the loaded record gives the quotient unrounded (its floor for
\* steps and intensity time) and the query gives null for a null operand.
C13_HoldsInPart ==
    \A p \in Percentages :
        LET x == Operands(TheRow)[p]
        IN  /\ out.q = "DailySummary.goal_percent" =>
                  /\ (x.achieved = NULL \/ x.goal = NULL) => out.stats[p] = Number(0, 1)
                  /\ BothGiven(x) =>
                        out.stats[p] =
                            IF p = "floors_goal_percent"
                            THEN Number(100 * Get(x.achieved), Get(x.goal))
                            ELSE Number((100 * Get(x.achieved)) \div Get(x.goal), 1)
            /\ out.q = "DailySummary.goal_percent.expression" =>
                  /\ (x.achieved = NULL \/ x.goal = NULL) => out.stats[p] = Null
                  /\ (BothGiven(x) /\ (~out.stats.truncating \/ p = "floors_goal_percent")) =>
                        out.stats[p] = RoundedPercent(x)

----------------------------------------------------------------------------
(* Claims on the enum unifier.                                             *)

\* the extension values each enum is declared with
DeclaredExtension(name) ==
    CASE name = "Manufacturer" -> { Member("Unknown", 100000), Member("Microsoft", 100001) }
      [] name = "FileType" -> { Member("tcx", 100001), Member("gpx", 100002) }
      [] name = "Example" -> { Member("foo", 100000) }
      [] OTHER -> {}

IsUnknownOf(enum, m) ==
    /\ m \in enum.members
    /\ m.name \in { "Unknown", enum.prefix \o "unknown" }

C15_ExtensionBandIsDisjoint ==
    unified # NoEnum =>
        LET extension == DeclaredExtension(unified.name)
            canonical == unified.members \ extension
        IN  /\ extension \subseteq unified.members
            /\ ValuesOf(extension) \cap ValuesOf(canonical) = {}
            /\ \A m1, m2 \in unified.members :
                   (m1.value = m2.value \/ m1.name = m2.name) => m1 = m2
            /\ out.q = "enum.by_value" =>
                   \A m \in unified.members :
                       m.value = out.a => m = out.stats.member
            /\ out.q = "enum.by_name" =>
                   \A m \in unified.members :
                       m.name = out.stats.asked => m = out.stats.member

\* gpx is found by its value in a FileType of three canonical members
C15_Witness ==
    /\ unified.name = "FileType"
    /\ Cardinality(unified.members) = 5
    /\ out.q = "enum.by_value"
    /\ out.a = 100002
    /\ out.stats.member = Member("gpx", 100002)

----------------------------------------------------------------------------
(* Claims on the derived views.                                            *)

RowsRead == out.stats.rows

\* how often a row is in the rows read
TimesRead(row) == Cardinality({ i \in DOMAIN RowsRead : RowsRead[i] = row })

LatestFirst ==
    \A i, j \in DOMAIN RowsRead : i < j => RowsRead[i].timestamp >= RowsRead[j].timestamp

\* the device and the device infos a file has
DevicesOf(f) == { d \in db.devices : f.serial_number = Some(d.serial_number) }

DeviceInfosOf(f) == { di \in db.device_info : di.file_id = Some(f.id) }

\* C16: a view holds exactly the rows of the inner joins of its entities: a
\* file is in the files view once for every device info of its id if a device
\* of its serial number exists, and not at all otherwise; a device info is in
\* the device info view if its device exists; the rows come latest first
C16_ViewIsInnerJoinLatestFirst ==
    /\ out.q = "files_view" =>
           /\ LatestFirst
           /\ Len(RowsRead) =
                  Cardinality({ p \in db.files \X db.device_info :
                                  DevicesOf(p[1]) # {} /\ p[2] \in DeviceInfosOf(p[1]) })
           /\ \A f \in db.files :
                  /\ (\E i \in DOMAIN RowsRead : RowsRead[i].activity_id = f.id) <=>
                         (DevicesOf(f) # {} /\ DeviceInfosOf(f) # {})
                  /\ \A d \in DevicesOf(f) : \A di \in DeviceInfosOf(f) :
                         \E i \in DOMAIN RowsRead :
                             /\ RowsRead[i].activity_id = f.id
                             /\ RowsRead[i].name = f.name
                             /\ RowsRead[i].timestamp = di.timestamp
                             /\ RowsRead[i].serial_number = d.serial_number
                             /\ RowsRead[i].product = d.product
    /\ out.q = "device_info_view" =>
           /\ LatestFirst
           /\ Len(RowsRead) =
                  Cardinality({ di \in db.device_info :
                                  \E d \in db.devices : d.serial_number = di.serial_number })
           /\ \A di \in db.device_info :
                  (\E d \in db.devices : d.serial_number = di.serial_number) =>
                      \E i \in DOMAIN RowsRead :
                          /\ RowsRead[i].timestamp = di.timestamp
                          /\ RowsRead[i].serial_number = di.serial_number
                          /\ RowsRead[i].file_id = di.file_id

\* two files of one device: the one with a device info is in the view, the one
\* without is not, and a file of no device with a device info is not either
C16_Witness ==
    /\ out.q = "files_view"
    /\ Len(RowsRead) = 1
    /\ RowsRead[1].activity_id = "1"
    /\ \E f \in db.files : f.id = "2" /\ DevicesOf(f) = {} /\ DeviceInfosOf(f) # {}

\* two device infos of different times are read, the later first
C16_WitnessOrder ==
    /\ out.q = "device_info_view"
    /\ Len(RowsRead) = 2
    /\ RowsRead[1].timestamp = 2
    /\ RowsRead[2].timestamp = 1

----------------------------------------------------------------------------
(* Claims on the zero exclusion of the vital signs.                        *)

\* the rows of the range of out that hold a value of the column
Measured(rows, col) == { r \in rows : out.a <= r.day /\ r.day < RangeEnd /\ r[col] # NULL }

NonZero(rows, col) == { r \in Measured(rows, col) : Get(r[col]) # 0 }

\* an average and a least taken without the zeros, a greatest taken with them
AvgWithoutZeros(v, rows, col) ==
    IF NonZero(rows, col) = {}
    THEN v = NULL
    ELSE IsAverage(v, TotalOver(rows, col, out.a, RangeEnd), Cardinality(NonZero(rows, col)))

MinWithoutZeros(v, rows, col) ==
    IF NonZero(rows, col) = {} THEN v = NULL ELSE IsLeast(v, NonZero(rows, col), col)

MaxWithZeros(v, rows, col) ==
    IF Measured(rows, col) = {} THEN v = NULL ELSE IsGreatest(v, Measured(rows, col), col)

\* C17: every entry of a rollup on weight, resting heart rate or stress is
\* taken without the zeros for its average and its least and with them for its
\* greatest; here for Weight.get_stats, the FitBit weight entries and the
\* rhr_avg, rhr_min, rhr_max and stress_avg entries of DailySummary.get_stats
C17_VitalSignsExcludeZerosButForMax ==
    /\ out.q \in { "Weight.get_stats" } \cup FitBitQueries =>
           /\ AvgWithoutZeros(out.stats.weight_avg, QueriedWeights, "weight")
           /\ MinWithoutZeros(out.stats.weight_min, QueriedWeights, "weight")
           /\ MaxWithZeros(out.stats.weight_max, QueriedWeights, "weight")
    /\ out.q = "DailySummary.get_stats" =>
           /\ AvgWithoutZeros(out.stats.rhr_avg, daily_summary, "rhr")
           /\ MinWithoutZeros(out.stats.rhr_min, daily_summary, "rhr")
           /\ MaxWithZeros(out.stats.rhr_max, daily_summary, "rhr")
           /\ AvgWithoutZeros(out.stats.stress_avg, daily_summary, "stress_avg")

\* what holds of the daily summary: its vital signs are taken with the zeros
C17_DailySummaryKeepsZeros ==
    out.q = "DailySummary.get_stats" =>
        LET rhr == Measured(daily_summary, "rhr")
            stress_avg == Measured(daily_summary, "stress_avg")
        IN  /\ rhr # {} =>
                /\ IsAverage(out.stats.rhr_avg,
                             TotalOver(daily_summary, "rhr", out.a, RangeEnd),
                             Cardinality(rhr))
                /\ IsLeast(out.stats.rhr_min, rhr, "rhr")
                /\ IsGreatest(out.stats.rhr_max, rhr, "rhr")
            /\ stress_avg # {} =>
                IsAverage(out.stats.stress_avg,
                          TotalOver(daily_summary, "stress_avg", out.a, RangeEnd),
                          Cardinality(stress_avg))

\* what holds of the tables of the vital signs themselves
C17_HoldsForRestingHeartRateAndStress ==
    /\ out.q = "RestingHeartRate.get_stats" =>
           /\ AvgWithoutZeros(out.stats.rhr_avg, resting_hr, "resting_heart_rate")
           /\ MinWithoutZeros(out.stats.rhr_min, resting_hr, "resting_heart_rate")
           /\ MaxWithZeros(out.stats.rhr_max, resting_hr, "resting_heart_rate")
    /\ out.q = "Stress.get_stats" =>
           AvgWithoutZeros(out.stats.stress_avg, stress, "stress")

\* a day of resting heart rate 0 and a day of 50 are asked for: the least
\* reported is 0 and the average 25
C17_Example ==
    /\ out.q = "DailySummary.get_stats"
    /\ { r.rhr : r \in Measured(daily_summary, "rhr") } = { Some(0), Some(50) }
    /\ out.stats.rhr_min = Some(0)
    /\ out.stats.rhr_avg = Some(Frac(25, 1))

----------------------------------------------------------------------------
(* Claims on the durations of the rollup bundles.                          *)

GarminRangeQueries == { "DailySummary.get_stats", "DailySummary.get_daily_stats" }

\* the seconds a duration column of the daily summary holds over the range
\* of out
SecondsHeld(col) ==
    TotalOver(secs_from_time(daily_summary, col), col, out.a, RangeEnd)

\* the seconds a column of minutes of the FitBit export holds over the range
MinutesHeld(col) == 60 * TotalOver(days_summary, col, out.a, RangeEnd)

\* the duration stands for the total; no duration is given for no time at all
StandsFor(t, total) ==
    \/ t = NULL /\ total = 0
    \/ IsTimeOfDay(t) /\ time_to_secs(Get(t)) = total

\* the duration is the total less the whole days in it
StandsForLessDays(t, total) ==
    \/ t = NULL /\ total = 0
    \/ IsTimeOfDay(t) /\ time_to_secs(Get(t)) = total % SecondsPerDay

\* C18: every duration of a rollup bundle is a time of 00:00:00..23:59:59
\* that stands for the true total of the range, in seconds: the sums of
\* moderate and vigorous activity time and of intensity time lose nothing of
\* a total of 24 hours or more, for the Garmin and the FitBit bundles
C18_DurationsAreTrueTotals ==
    /\ out.q \in GarminRangeQueries =>
           /\ StandsFor(out.stats.moderate_activity_time, SecondsHeld("moderate_activity_time"))
           /\ StandsFor(out.stats.vigorous_activity_time, SecondsHeld("vigorous_activity_time"))
           /\ StandsFor(out.stats.intensity_time,
                        SecondsHeld("moderate_activity_time")
                            + 2 * SecondsHeld("vigorous_activity_time"))
    /\ out.q \in FitBitQueries =>
           /\ StandsFor(out.stats.moderate_activity_time, MinutesHeld("fairly_active_mins"))
           /\ StandsFor(out.stats.vigorous_activity_time, MinutesHeld("very_active_mins"))
           /\ StandsFor(out.stats.intensity_time,
                        MinutesHeld("fairly_active_mins")
                            + 2 * MinutesHeld("very_active_mins"))

\* what holds: every duration is a time of day, the total less its whole days
C18_DurationsAreTotalsLessWholeDays ==
    /\ out.q \in GarminRangeQueries =>
           /\ StandsForLessDays(out.stats.moderate_activity_time,
                                SecondsHeld("moderate_activity_time"))
           /\ StandsForLessDays(out.stats.vigorous_activity_time,
                                SecondsHeld("vigorous_activity_time"))
           /\ StandsForLessDays(out.stats.intensity_time,
                                SecondsHeld("moderate_activity_time")
                                    + 2 * SecondsHeld("vigorous_activity_time"))
    /\ out.q \in FitBitQueries =>
           /\ StandsForLessDays(out.stats.moderate_activity_time,
                                MinutesHeld("fairly_active_mins"))
           /\ StandsForLessDays(out.stats.vigorous_activity_time,
                                MinutesHeld("very_active_mins"))
           /\ StandsForLessDays(out.stats.intensity_time,
                                MinutesHeld("fairly_active_mins")
                                    + 2 * MinutesHeld("very_active_mins"))

\* a week of two days of five fairly and five very active hours each: thirty
\* hours of intensity are reported as six
C18_Example ==
    /\ out.q = "DaysSummary.get_weekly_stats"
    /\ out.stats.moderate_activity_time = Some(Time(10, 0, 0))
    /\ out.stats.vigorous_activity_time = Some(Time(10, 0, 0))
    /\ out.stats.intensity_time = Some(Time(6, 0, 0))

----------------------------------------------------------------------------
(* Claims on the download of the daily statistics.                         *)

Requests == download.requests

\* C19: __get_stat asks for the days date, date + 1, ... in this order and
\* none beyond date + days; a day is asked for with overwrite true exactly
\* when the caller's flag is true or the day is at most download_days_overlap
\* days before the day of the request; after a request that reports failure no
\* day is asked for
C19_RecentDaysAreDownloadedAfresh ==
    \A i \in DOMAIN Requests :
        /\ Requests[i].date = download.date + (i - 1)
        /\ Requests[i].date <= download.date + download.days
        /\ Requests[i].overwite <=>
               (download.overwite
                    \/ Requests[i].now - Requests[i].date <= download.download_days_overlap)
        /\ i < Len(Requests) => Requests[i].ok

\* without the caller's flag an old day is asked for as it is, the day after
\* it is within the overlap and asked for afresh; it fails and the last day
\* is not asked for
C19_Witness ==
    /\ download.pc = "returned"
    /\ ~ download.overwite
    /\ download.days = 2
    /\ Len(Requests) = 2
    /\ ~ Requests[1].overwite
    /\ Requests[2].overwite
    /\ ~ Requests[2].ok

----------------------------------------------------------------------------
(* Claims on the two forms of the computed columns.                        *)

\* the quotient achieved x 100 / goal is a whole number
WholePercent(x) == (100 * Get(x.achieved)) % Get(x.goal) = 0

\* C20: for a stored row the value of each computed column on the loaded
\* record equals the value its query expression yields for that row:
\* intensity_time always, and each goal percentage, rounding included,
\* whenever its operands are non-null and its goal is not zero
C20_LoadedAndQueriedFormsAgree ==
    out.q = "DailySummary.goal_percent.both" =>
        /\ out.stats.loaded.intensity_time = out.stats.expression.intensity_time
        /\ \A p \in Percentages :
               BothGiven(Operands(TheRow)[p]) =>
                   out.stats.loaded[p] = out.stats.expression[p]

\* what holds: intensity_time agrees; a percentage agrees when its quotient
\* is whole, and those of steps and of intensity time also when the engine
\* truncates the quotient of two integers as the loaded form does
C20_FormsAgreeOnWholePercentages ==
    out.q = "DailySummary.goal_percent.both" =>
        /\ out.stats.loaded.intensity_time = out.stats.expression.intensity_time
        /\ \A p \in Percentages :
               LET x == Operands(TheRow)[p]
               IN  (BothGiven(x)
                        /\ (WholePercent(x)
                               \/ (out.stats.truncating /\ p # "floors_goal_percent"))) =>
                       out.stats.loaded[p] = out.stats.expression[p]

\* two floors of a goal of three: 200/3 on the loaded record, 67 in the query
C20_Example ==
    /\ out.q = "DailySummary.goal_percent.both"
    /\ TheRow.floors_up = Some(2)
    /\ TheRow.floors_goal = Some(3)
    /\ out.stats.loaded.floors_goal_percent = Number(200, 3)
    /\ out.stats.expression.floors_goal_percent = Number(67, 1)

----------------------------------------------------------------------------
(* Claims on a goal of zero.                                               *)

\* the goal is zero and a value achieved is given
ZeroGoal(x) == x.achieved # NULL /\ x.goal # NULL /\ Get(x.goal) = 0

\* C21: on a loaded row whose goal is zero (intensity_time_goal at its
\* default 00:00:00, step_goal 0 or floors_goal 0) and whose achieved value
\* is given, each goal percentage is a defined value: none raises a division
\* by zero
C21_ZeroGoalGivesADefinedPercentage ==
    out.q = "DailySummary.goal_percent" =>
        \A p \in Percentages :
            ZeroGoal(Operands(TheRow)[p]) => out.stats[p].kind = "number"

\* what holds: the loaded form raises exactly on a goal of zero with a value
\* achieved, and the query form gives null there
C21_ZeroGoalRaisesOnTheLoadedRecord ==
    \A p \in Percentages :
        LET x == Operands(TheRow)[p]
        IN  /\ out.q = "DailySummary.goal_percent" =>
                  (out.stats[p] = ZeroDivisionError <=> ZeroGoal(x))
            /\ out.q = "DailySummary.goal_percent.expression" =>
                  /\ out.stats[p] # ZeroDivisionError
                  /\ ZeroGoal(x) => out.stats[p] = Null

\* three steps of a goal of zero steps, on a day whose intensity time goal
\* is left at its default
C21_Example ==
    /\ out.q = "DailySummary.goal_percent"
    /\ TheRow.steps = Some(3)
    /\ TheRow.step_goal = Some(0)
    /\ TheRow.intensity_time_goal = Some(time_min)
    /\ out.stats.steps_goal_percent = ZeroDivisionError
    /\ out.stats.intensity_time_goal_percent = ZeroDivisionError

----------------------------------------------------------------------------
(* Claims on the ids of the files.                                         *)

\* no two rows of the files table share an id, and no two share a name
FileKeysUnique ==
    \A r1, r2 \in db.files : (r1.id = r2.id \/ r1.name = r2.name) => r1 = r2

\* C22: the File records upserted, their id and name taken from
\* name_and_id_from_path, never collide on the primary key: two records of
\* different names have different ids, every record upserted is held by the
\* files table under its name and id, and the table keeps ids and names unique
C22_FileIdsNeverCollide ==
    /\ \A h1, h2 \in issued.files : h1.name # h2.name => h1.id # h2.id
    /\ \A h \in issued.files : \E r \in db.files : r.name = h.name /\ r.id = h.id
    /\ FileKeysUnique

\* what holds: the table keeps its ids and names unique, by refusing the file
\* whose id is taken; a file is missing only when another of its id is held
C22_CollidingFileIsRefused ==
    /\ FileKeysUnique
    /\ \A h \in issued.files :
           (\E r \in db.files : r.name = h.name)
               \/ (\E r \in db.files : r.id = h.id /\ r.name # h.name)

\* 1.f and 1.t were upserted, and the table holds one of them only
C22_Example ==
    /\ { h.name : h \in issued.files } = { << "1", ".", "f" >>, << "1", ".", "t" >> }
    /\ Cardinality(db.files) = 1

====
